---- MODULE Spec2Model ----
(***************************************************************************)
(* Model of the CMP message protection code (ossl_cmp_calc_protection,     *)
(* ossl_cmp_msg_add_extraCerts, ossl_cmp_msg_protect) and of the OSSL_STORE *)
(* session code (OSSL_STORE_open_with_libctx and friends).                 *)
(*                                                                         *)
(* A C pointer is modelled by its pointee, or by NULL when it is null.     *)
(* Heap objects whose identity matters carry a field `fresh`: TRUE when    *)
(* the object was allocated by the most recent call, FALSE when it already *)
(* existed before that call.                                               *)
(***************************************************************************)
EXTENDS Integers, Sequences, FiniteSets, TLC

VARIABLES
    ctx,      \* OSSL_CMP_CTX: the caller's protocol context
    msg,      \* OSSL_CMP_MSG: the message being protected
    pre,      \* snapshot [msg, op, ret] taken when the last call was entered
    op,       \* the last call made: "none", "protect", "add_extraCerts"
    ret,      \* its return value (1 success, 0 failure, -1 before any call)
    errs,     \* the error codes it raised, in order (CMPerr)
    calls,    \* the external capabilities it invoked
    ncalls,   \* how many calls were made so far
    reg,      \* OSSL_STORE: which schemes have a registered or a provided loader
    uri,      \* OSSL_STORE: the uri the caller opens
    tried,    \* OSSL_STORE: the schemes the last open looked up, in order
    sess,     \* OSSL_STORE: what the last open returned (NULL or an OSSL_STORE_CTX)
    lctx,     \* OSSL_STORE: the loader contexts created so far, and their state
    handles,  \* OSSL_STORE: the fetched loader handles, and how often each was freed
    errq,     \* OSSL_STORE: the thread's error queue
    ub,       \* OSSL_STORE: a NULL loader was dereferenced (undefined behaviour)
    nopen,    \* OSSL_STORE: how many opens were made so far
    be,       \* OSSL_STORE: the backend behind the session's loader context
    pwcache,  \* OSSL_STORE: ctx->pwdata holds a cached passphrase
    spre,     \* OSSL_STORE: snapshot taken when the last session call was entered
    sop,      \* OSSL_STORE: the last session call made, with its arguments
    sret,     \* OSSL_STORE: what it returned
    scalls,   \* OSSL_STORE: the loader functions and hooks it invoked, in order
    nloads,   \* OSSL_STORE: how often OSSL_STORE_load was called on the session
    delivered, \* OSSL_STORE: the objects OSSL_STORE_load returned so far, in order
    leaks,    \* OSSL_STORE: blocks allocated and neither freed nor handed out
    info,     \* OSSL_STORE_INFO: the object the caller constructed last
    nsteps,   \* OSSL_STORE: how many session and object calls were made so far
    pmac,     \* MAC signature: the contexts, what they own, and the last call
    kt        \* kTLS: the socket, the caller's buffer, and the last read

cmpVars == <<ctx, msg, pre, op, ret, errs, calls, ncalls>>
storeVars == <<reg, uri, tried, sess, lctx, handles, errq, ub, nopen>>
sessVars == <<be, pwcache, spre, sop, sret, scalls, nloads, delivered, leaks, info, nsteps>>
provVars == <<pmac, kt>>
vars == <<ctx, msg, pre, op, ret, errs, calls, ncalls,
          reg, uri, tried, sess, lctx, handles, errq, ub, nopen,
          be, pwcache, spre, sop, sret, scalls, nloads, delivered, leaks, info, nsteps,
          pmac, kt>>

\* A null pointer: NULL where the pointee is modelled by a string (a name, an
\* octet string), NULLP where it is modelled by a record (a structure).
NULL == "NULL"
NULLP == [null |-> TRUE]

\* A STACK_OF(X509) holding the certificates of the sequence s, in order.
Stack(s) == [certs |-> s]

\* How many calls one behaviour makes on the message.
MaxCalls == 2

(***************************************************************************)
(* Certificates and keys.  X509_cmp compares certificates structurally;    *)
(* a certificate is modelled by its name.                                  *)
(***************************************************************************)
Certs == {"certA", "certB", "root"}
Keys == {"keyA", "keyB"}

\* The public key a certificate carries, named by its matching private key.
PubKeyOf(c) == CASE c = "certA" -> "keyA" [] c = "certB" -> "keyB" [] OTHER -> "keyR"

\* X509_check_private_key: the private key matches the certificate's public key.
X509_check_private_key(c, k) == PubKeyOf(c) = k

\* X509_get0_subject_key_id: the subjectKeyIdentifier extension, NULL when the
\* certificate has none (certB has none).
X509_get0_subject_key_id(c) ==
    CASE c = "certA" -> "skidA" [] c = "root" -> "skidR" [] OTHER -> NULL

\* The issuer of a certificate; root is self-signed.
IssuerOf(c) == CASE c = "certA" -> "certB" [] OTHER -> "root"

SelfSigned(c) == IssuerOf(c) = c

\* Whether q occurs in the sequence s.
InSeq(s, q) == \E i \in 1..Len(s) : s[i] = q

\* The flags of X509_add_cert / X509_add_certs.
X509_ADD_FLAG_UP_REF == "UP_REF"
X509_ADD_FLAG_PREPEND == "PREPEND"
X509_ADD_FLAG_NO_DUP == "NO_DUP"
X509_ADD_FLAG_NO_SS == "NO_SS"

(***************************************************************************)
(* X509_add_cert(sk, cert, flags): with NO_DUP a certificate already in    *)
(* the list is skipped, with NO_SS a self-signed one is skipped; otherwise *)
(* it is inserted, at the front with PREPEND, else at the end.  `failIns`  *)
(* is the allocation failure of that insertion.  Result [ok, sk].          *)
(***************************************************************************)
X509_add_cert(sk, cert, flags, failIns) ==
    IF X509_ADD_FLAG_NO_DUP \in flags /\ InSeq(sk, cert)
    THEN [ok |-> TRUE, sk |-> sk]
    ELSE IF X509_ADD_FLAG_NO_SS \in flags /\ SelfSigned(cert)
    THEN [ok |-> TRUE, sk |-> sk]
    ELSE IF failIns
    THEN [ok |-> FALSE, sk |-> sk]
    ELSE [ok |-> TRUE,
          sk |-> IF X509_ADD_FLAG_PREPEND \in flags
                 THEN <<cert>> \o sk ELSE Append(sk, cert)]

\* X509_add_cert on each certificate of the sequence s in order, stopping at
\* the first failure.
RECURSIVE AddEach(_, _, _, _)
AddEach(sk, s, flags, failIns) ==
    IF s = <<>>
    THEN [ok |-> TRUE, sk |-> sk]
    ELSE LET r == X509_add_cert(sk, Head(s), flags, failIns)
         IN IF ~r.ok THEN r ELSE AddEach(r.sk, Tail(s), flags, failIns)

\* X509_add_certs(sk, certs, flags): adds the certificates of the stack certs
\* (which may be NULL: nothing to add) to the sequence sk.
X509_add_certs(sk, certs, flags, failIns) ==
    IF certs = NULLP
    THEN [ok |-> TRUE, sk |-> sk]
    ELSE AddEach(sk, certs.certs, flags, failIns)

\* The chain of cert: cert followed by its issuers as far as they are found
\* in the sequence pool.
RECURSIVE ChainFrom(_, _)
ChainFrom(pool, cert) ==
    IF ~SelfSigned(cert) /\ InSeq(pool, IssuerOf(cert))
    THEN <<cert>> \o ChainFrom(pool, IssuerOf(cert))
    ELSE <<cert>>

\* ossl_cmp_build_cert_chain(untrusted, cert): the stack holding the chain of
\* cert built from the untrusted pool, the self-signed root included.
ossl_cmp_build_cert_chain(untrusted, cert) == Stack(ChainFrom(untrusted.certs, cert))

(***************************************************************************)
(* The points where a call can fail for lack of memory or inside an        *)
(* external primitive.  A call is made with one of them armed ("none": no  *)
(* failure); every failure aborts the call, so one point per call is all.  *)
(***************************************************************************)
FailPoints == {"none", "set_pbmac_algor", "set_sig_algor", "set1_senderKID",
               "calc", "sk_new", "add_own", "add_chain", "add_out"}

(***************************************************************************)
(* Algorithm identifiers.  An X509_ALGOR is [oid, ptype, pval, fresh].     *)
(***************************************************************************)
NID_id_PasswordBasedMAC == "id-PasswordBasedMAC"
V_ASN1_SEQUENCE == "V_ASN1_SEQUENCE"
V_ASN1_UNDEF == "V_ASN1_UNDEF"

\* OBJ_find_sigid_by_algs(digest, key type): the signature algorithm of a digest
\* and a key type, NULL when the key type has none.
OBJ_find_sigid_by_algs(md, k) ==
    CASE k = "keyA" -> "sha256WithRSAEncryption"
      [] k = "keyB" -> "ecdsa-with-SHA256"
      [] OTHER -> NULL

\* OBJ_find_sigid_algs, had it named a digest for every identifier.
OBJ_find_sigid_algs_AnyDigest(oid) == "sha256"

\* OBJ_find_sigid_algs(signature algorithm): its digest, NULL when unknown.
OBJ_find_sigid_algs(oid) ==
    IF oid \in {"sha256WithRSAEncryption", "ecdsa-with-SHA256"} THEN "sha256" ELSE NULL

\* OSSL_CRMF_pbmp_new(slen, owf, itercnt, mac): the PBMParameter built from the
\* context's settings.
OSSL_CRMF_pbmp_new(slen, owf, itercnt, mac) ==
    [slen |-> slen, owf |-> owf, itercnt |-> itercnt, mac |-> mac]

\* ProtectedPart, had the data to protect covered the extraCerts as well.
ProtectedPart_WholeMessage(m) ==
    [sender |-> m.sender, senderKID |-> m.senderKID, body |-> m.body,
     extraCerts |-> m.extraCerts,
     protectionAlg |-> IF m.protectionAlg = NULLP THEN NULLP
                       ELSE [oid |-> m.protectionAlg.oid,
                             ptype |-> m.protectionAlg.ptype,
                             pval |-> m.protectionAlg.pval]]

\* i2d_OSSL_CMP_PROTECTEDPART: the encoding of (header, body).  The header
\* carries the sender, the senderKID and the protectionAlg (by content).
ProtectedPart(m) ==
    [sender |-> m.sender, senderKID |-> m.senderKID, body |-> m.body,
     protectionAlg |-> IF m.protectionAlg = NULLP THEN NULLP
                       ELSE [oid |-> m.protectionAlg.oid,
                             ptype |-> m.protectionAlg.ptype,
                             pval |-> m.protectionAlg.pval]]

\* OSSL_CRMF_pbm_new: the MAC of the data under the secret and the parameters.
OSSL_CRMF_pbm_new(pbm, der, secret) == <<"mac", pbm, secret, der>>

\* ASN1_item_sign_with_libctx: the signature of the data with key and digest.
ASN1_item_sign(pkey, md, der) == <<"sig", pkey, md, der>>

\* A parameter value of the protectionAlg that d2i_OSSL_CRMF_PBMPARAMETER
\* cannot decode.
Undecodable == [undecodable |-> TRUE]

\* ossl_cmp_calc_protection, had the PasswordBasedMac branch looked at the
\* parameters before the secretValue.
ossl_cmp_calc_protection_ParamsFirst(c, m, fail) ==
    LET alg == m.protectionAlg
        no(e) == [prot |-> NULLP, errs |-> e, calls |-> {}]
    IN
    IF alg = NULLP THEN no(<<"CMP_R_UNKNOWN_ALGORITHM_ID">>)
    ELSE IF alg.oid = NID_id_PasswordBasedMAC THEN
        IF alg.pval = NULLP THEN no(<<"CMP_R_ERROR_CALCULATING_PROTECTION">>)
        ELSE IF alg.pval = Undecodable THEN no(<<"CMP_R_WRONG_ALGORITHM_OID">>)
        ELSE IF c.secretValue = NULL THEN no(<<"CMP_R_MISSING_PBM_SECRET">>)
        ELSE IF fail THEN [prot |-> NULLP, errs |-> <<>>,
                           calls |-> {"OSSL_CRMF_pbm_new"}]
        ELSE [prot |-> [bytes |-> OSSL_CRMF_pbm_new(alg.pval, ProtectedPart(m),
                                                    c.secretValue),
                        bitsLeft |-> TRUE, fresh |-> TRUE],
              errs |-> <<>>, calls |-> {"OSSL_CRMF_pbm_new"}]
    ELSE
        IF c.pkey = NULL
        THEN no(<<"CMP_R_MISSING_KEY_INPUT_FOR_CREATING_PROTECTION">>)
        ELSE IF OBJ_find_sigid_algs(alg.oid) = NULL
        THEN no(<<"CMP_R_UNKNOWN_ALGORITHM_ID">>)
        ELSE IF fail THEN [prot |-> NULLP, errs |-> <<>>, calls |-> {"ASN1_item_sign"}]
        ELSE [prot |-> [bytes |-> ASN1_item_sign(c.pkey, OBJ_find_sigid_algs(alg.oid),
                                                 ProtectedPart(m)),
                        bitsLeft |-> TRUE, fresh |-> TRUE],
              errs |-> <<>>, calls |-> {"ASN1_item_sign"}]

(***************************************************************************)
(* ossl_cmp_calc_protection(ctx, msg): the protection of msg according to  *)
(* the protectionAlg of its header.  Result [prot, errs, calls]: the new   *)
(* ASN1_BIT_STRING [bytes, bitsLeft, fresh] or NULLP, the errors raised    *)
(* and the primitives invoked.  `fail`: the primitive or an allocation     *)
(* fails.                                                                  *)
(***************************************************************************)
ossl_cmp_calc_protection(c, m, fail) ==
    LET alg == m.protectionAlg
        no(e) == [prot |-> NULLP, errs |-> e, calls |-> {}]
    IN
    IF alg = NULLP THEN no(<<"CMP_R_UNKNOWN_ALGORITHM_ID">>)
    ELSE IF alg.oid = NID_id_PasswordBasedMAC THEN
        IF c.secretValue = NULL THEN no(<<"CMP_R_MISSING_PBM_SECRET">>)
        ELSE IF alg.pval = NULLP THEN no(<<"CMP_R_ERROR_CALCULATING_PROTECTION">>)
        ELSE IF alg.pval = Undecodable THEN no(<<"CMP_R_WRONG_ALGORITHM_OID">>)
        ELSE IF fail THEN [prot |-> NULLP, errs |-> <<>>,
                           calls |-> {"OSSL_CRMF_pbm_new"}]
        ELSE [prot |-> [bytes |-> OSSL_CRMF_pbm_new(alg.pval, ProtectedPart(m),
                                                    c.secretValue),
                        bitsLeft |-> TRUE, fresh |-> TRUE],
              errs |-> <<>>, calls |-> {"OSSL_CRMF_pbm_new"}]
    ELSE
        IF c.pkey = NULL
        THEN no(<<"CMP_R_MISSING_KEY_INPUT_FOR_CREATING_PROTECTION">>)
        ELSE IF OBJ_find_sigid_algs(alg.oid) = NULL
        THEN no(<<"CMP_R_UNKNOWN_ALGORITHM_ID">>)
        ELSE IF fail THEN [prot |-> NULLP, errs |-> <<>>, calls |-> {"ASN1_item_sign"}]
        ELSE [prot |-> [bytes |-> ASN1_item_sign(c.pkey, OBJ_find_sigid_algs(alg.oid),
                                                 ProtectedPart(m)),
                        bitsLeft |-> TRUE, fresh |-> TRUE],
              errs |-> <<>>, calls |-> {"ASN1_item_sign"}]

\* The flags ossl_cmp_msg_add_extraCerts passes when it adds the context's own
\* certificate, the chain built for it, and the context's extraCertsOut.
\* OwnCertFlags, had X509_ADD_FLAG_PREPEND been left out.
OwnCertFlags_Appending == {X509_ADD_FLAG_UP_REF, X509_ADD_FLAG_NO_DUP}
OwnCertFlags == {X509_ADD_FLAG_UP_REF, X509_ADD_FLAG_NO_DUP, X509_ADD_FLAG_PREPEND}
ChainFlags == {X509_ADD_FLAG_UP_REF, X509_ADD_FLAG_NO_DUP, X509_ADD_FLAG_NO_SS}
\* ExtraCertsOutFlags, had X509_ADD_FLAG_NO_DUP been left out.
ExtraCertsOutFlags_WithoutNoDup == {X509_ADD_FLAG_UP_REF}
ExtraCertsOutFlags == {X509_ADD_FLAG_UP_REF, X509_ADD_FLAG_NO_DUP}

(***************************************************************************)
(* The additions ossl_cmp_msg_add_extraCerts makes to the list sk: the     *)
(* context's own certificate first if it has cert and key, then the chain  *)
(* built from the untrusted certs if there are any, then the context's     *)
(* extraCertsOut.  `f` is the armed failure point.  Result [ok, sk, calls].*)
(***************************************************************************)
AssembleCerts(c, sk, f) ==
    LET withOwn == c.cert # NULL /\ c.pkey # NULL
        own == IF withOwn
               THEN X509_add_cert(sk, c.cert, OwnCertFlags, f = "add_own")
               ELSE [ok |-> TRUE, sk |-> sk]
        withChain == withOwn /\ own.ok /\ c.untrusted_certs # NULLP
        chain == IF withChain
                 THEN X509_add_certs(own.sk,
                          ossl_cmp_build_cert_chain(c.untrusted_certs, c.cert),
                          ChainFlags, f = "add_chain")
                 ELSE own
        out == IF chain.ok
               THEN X509_add_certs(chain.sk, c.extraCertsOut,
                                   ExtraCertsOutFlags, f = "add_out")
               ELSE chain
    IN [ok |-> out.ok, sk |-> out.sk,
        calls |-> IF withChain THEN {"ossl_cmp_build_cert_chain"} ELSE {}]

\* ossl_cmp_msg_add_extraCerts, had it kept an empty list on the message.
ossl_cmp_msg_add_extraCerts_KeepingEmpty(c, m, f) ==
    LET r == AssembleCerts(c, IF m.extraCerts = NULLP THEN <<>>
                              ELSE m.extraCerts.certs, f)
    IN IF m.extraCerts = NULLP /\ f = "sk_new"
       THEN [ok |-> FALSE, extraCerts |-> NULLP, calls |-> {}]
       ELSE [ok |-> r.ok, extraCerts |-> Stack(r.sk), calls |-> r.calls]

(***************************************************************************)
(* ossl_cmp_msg_add_extraCerts(ctx, msg).  Result [ok, extraCerts, calls]: *)
(* the return value, the message's extraCerts field afterwards and the     *)
(* functions invoked.  An absent list is created first; after the          *)
(* additions an empty list is freed and the field set to NULL.             *)
(***************************************************************************)
ossl_cmp_msg_add_extraCerts(c, m, f) ==
    LET r == AssembleCerts(c, IF m.extraCerts = NULLP THEN <<>>
                              ELSE m.extraCerts.certs, f)
    IN IF m.extraCerts = NULLP /\ f = "sk_new"
       THEN [ok |-> FALSE, extraCerts |-> NULLP, calls |-> {}]
       ELSE IF ~r.ok
       THEN [ok |-> FALSE, extraCerts |-> Stack(r.sk), calls |-> r.calls]
       ELSE [ok |-> TRUE, calls |-> r.calls,
             extraCerts |-> IF Len(r.sk) = 0 THEN NULLP ELSE Stack(r.sk)]

(***************************************************************************)
(* set_pbmac_algor(ctx, &alg): the PasswordBasedMAC X509_ALGOR built from  *)
(* the pbm settings of the context.  Result [ok, alg].                     *)
(***************************************************************************)
set_pbmac_algor(c, alg, fail) ==
    IF fail THEN [ok |-> FALSE, alg |-> alg]
    ELSE [ok |-> TRUE,
          alg |-> [oid |-> NID_id_PasswordBasedMAC, ptype |-> V_ASN1_SEQUENCE,
                   pval |-> OSSL_CRMF_pbmp_new(c.pbm_slen, c.pbm_owf,
                                               c.pbm_itercnt, c.pbm_mac),
                   fresh |-> IF alg = NULLP THEN TRUE ELSE alg.fresh]]

\* set_sig_algor(ctx, &alg): the signature X509_ALGOR of the context's digest
\* and key type.  Result [ok, alg, errs].
set_sig_algor(c, alg, fail) ==
    IF OBJ_find_sigid_by_algs(c.digest, c.pkey) = NULL
    THEN [ok |-> FALSE, alg |-> alg, errs |-> <<"CMP_R_UNSUPPORTED_KEY_TYPE">>]
    ELSE IF fail THEN [ok |-> FALSE, alg |-> alg, errs |-> <<>>]
    ELSE [ok |-> TRUE, errs |-> <<>>,
          alg |-> [oid |-> OBJ_find_sigid_by_algs(c.digest, c.pkey),
                   ptype |-> V_ASN1_UNDEF, pval |-> NULLP,
                   fresh |-> IF alg = NULLP THEN TRUE ELSE alg.fresh]]

\* set_senderKID, had it kept a senderKID the header already carries.
set_senderKID_KeepingExisting(c, m, id, fail) ==
    LET id1 == IF id = NULL THEN c.referenceValue ELSE id
    IN IF id1 = NULL \/ m.senderKID # NULL
       THEN [ok |-> TRUE, senderKID |-> m.senderKID]
       ELSE IF fail THEN [ok |-> FALSE, senderKID |-> m.senderKID]
       ELSE [ok |-> TRUE, senderKID |-> id1]

\* set_senderKID(ctx, msg, id): id defaults to the context's referenceValue;
\* with no id at all nothing is set, else the header's senderKID is set to a
\* copy of id.  Result [ok, senderKID].
set_senderKID(c, m, id, fail) ==
    LET id1 == IF id = NULL THEN c.referenceValue ELSE id
    IN IF id1 = NULL THEN [ok |-> TRUE, senderKID |-> m.senderKID]
       ELSE IF fail THEN [ok |-> FALSE, senderKID |-> m.senderKID]
       ELSE [ok |-> TRUE, senderKID |-> id1]

\* ossl_cmp_general_name_is_NULL_DN: the sender name is the empty DN.
ossl_cmp_general_name_is_NULL_DN(sender) == sender = "NULL-DN"

\* StripProtection, had it removed the protectionAlg only.
StripProtection_AlgOnly(m) == [m EXCEPT !.protectionAlg = NULLP]

\* The first step of ossl_cmp_msg_protect: pre-existing protection is removed.
StripProtection(m) == [m EXCEPT !.protectionAlg = NULLP, !.protection = NULLP]

\* The result of a call on the message: the message afterwards, the return
\* value, the errors raised and the functions invoked.
Outcome(m, r, e, cs) == [msg |-> m, ret |-> r, errs |-> e, calls |-> cs]

\* The PasswordBasedMac branch of ossl_cmp_msg_protect: the algorithm is set
\* from the pbm settings, the senderKID from the referenceValue.
PbmacPath(c, m, f) ==
    LET a == set_pbmac_algor(c, m.protectionAlg, f = "set_pbmac_algor")
        m2 == [m EXCEPT !.protectionAlg = a.alg]
        k == set_senderKID(c, m2, NULL, f = "set1_senderKID")
    IN IF ~a.ok THEN Outcome(m2, 0, <<>>, {"set_pbmac_algor"})
       ELSE Outcome([m2 EXCEPT !.senderKID = k.senderKID],
                    IF k.ok THEN 1 ELSE 0, <<>>,
                    {"set_pbmac_algor", "set_senderKID"})

\* SigPath, had the key been checked against the certificate after the
\* algorithm and the senderKID were set.
SigPath_CheckLast(c, m, f) ==
    LET a == set_sig_algor(c, m.protectionAlg, f = "set_sig_algor")
        m2 == [m EXCEPT !.protectionAlg = a.alg]
        k == set_senderKID(c, m2, X509_get0_subject_key_id(c.cert),
                           f = "set1_senderKID")
        m3 == [m2 EXCEPT !.senderKID = k.senderKID]
    IN IF ~a.ok THEN Outcome(m2, 0, a.errs, {"set_sig_algor"})
       ELSE IF ~k.ok THEN Outcome(m3, 0, <<>>, {"set_sig_algor", "set_senderKID"})
       ELSE IF ~X509_check_private_key(c.cert, c.pkey)
       THEN Outcome(m3, 0, <<"CMP_R_CERT_AND_KEY_DO_NOT_MATCH">>,
                    {"X509_check_private_key", "set_sig_algor", "set_senderKID"})
       ELSE Outcome(m3, 1, <<>>,
                    {"X509_check_private_key", "set_sig_algor", "set_senderKID"})

\* The signature branch of ossl_cmp_msg_protect: key and certificate must
\* match; the algorithm is set from digest and key type, the senderKID from
\* the certificate's subject key identifier.
SigPath(c, m, f) ==
    IF ~X509_check_private_key(c.cert, c.pkey)
    THEN Outcome(m, 0, <<"CMP_R_CERT_AND_KEY_DO_NOT_MATCH">>,
                 {"X509_check_private_key"})
    ELSE
    LET a == set_sig_algor(c, m.protectionAlg, f = "set_sig_algor")
        m2 == [m EXCEPT !.protectionAlg = a.alg]
        k == set_senderKID(c, m2, X509_get0_subject_key_id(c.cert),
                           f = "set1_senderKID")
    IN IF ~a.ok THEN Outcome(m2, 0, a.errs,
                             {"X509_check_private_key", "set_sig_algor"})
       ELSE Outcome([m2 EXCEPT !.senderKID = k.senderKID],
                    IF k.ok THEN 1 ELSE 0, <<>>,
                    {"X509_check_private_key", "set_sig_algor", "set_senderKID"})

\* SelectPath, had it taken the signature branch with a cert or a key alone.
SelectPath_EitherCredential(c, m, f) ==
    IF c.secretValue # NULL THEN PbmacPath(c, m, f)
    ELSE IF c.cert # NULL \/ c.pkey # NULL THEN SigPath(c, m, f)
    ELSE Outcome(m, 0, <<"CMP_R_MISSING_KEY_INPUT_FOR_CREATING_PROTECTION">>, {})

\* SelectPath, had it tested cert and key before the secretValue.
SelectPath_SignatureFirst(c, m, f) ==
    IF c.cert # NULL /\ c.pkey # NULL THEN SigPath(c, m, f)
    ELSE IF c.secretValue # NULL THEN PbmacPath(c, m, f)
    ELSE Outcome(m, 0, <<"CMP_R_MISSING_KEY_INPUT_FOR_CREATING_PROTECTION">>, {})

(***************************************************************************)
(* The path selection of ossl_cmp_msg_protect: PasswordBasedMac if the     *)
(* context has a secretValue, else signature if it has cert and key, else  *)
(* an error.  Result [msg, ret, errs, calls], ret = 1 when the algorithm   *)
(* and the senderKID are set.                                              *)
(***************************************************************************)
SelectPath(c, m, f) ==
    IF c.secretValue # NULL THEN PbmacPath(c, m, f)
    ELSE IF c.cert # NULL /\ c.pkey # NULL THEN SigPath(c, m, f)
    ELSE Outcome(m, 0, <<"CMP_R_MISSING_KEY_INPUT_FOR_CREATING_PROTECTION">>, {})

\* MissingSenderIdentification, had the senderKID test been inverted.
MissingSenderIdentification_Inverted(m) ==
    ossl_cmp_general_name_is_NULL_DN(m.sender) /\ m.senderKID # NULL

\* The last check of ossl_cmp_msg_protect: a NULL-DN sender and no senderKID
\* leave the message without sender identification.
MissingSenderIdentification(m) ==
    ossl_cmp_general_name_is_NULL_DN(m.sender) /\ m.senderKID = NULL

(***************************************************************************)
(* ossl_cmp_msg_protect after its unprotectedSend test: select the path,   *)
(* calculate the protection, add the extraCerts, check the identification. *)
(* Every failure goes to err, which raises ERROR_PROTECTING_MESSAGE and    *)
(* returns 0, keeping what was set on the message so far.                  *)
(***************************************************************************)
ProtectSteps(c, m, f) ==
    LET err(mm, e, cs) ==
            Outcome(mm, 0, e \o <<"CMP_R_ERROR_PROTECTING_MESSAGE">>, cs)
        sel == SelectPath(c, m, f)
        p == ossl_cmp_calc_protection(c, sel.msg, f = "calc")
        m3 == [sel.msg EXCEPT !.protection = p.prot]
        cs3 == sel.calls \cup {"ossl_cmp_calc_protection"} \cup p.calls
        x == ossl_cmp_msg_add_extraCerts(c, m3, f)
        m4 == [m3 EXCEPT !.extraCerts = x.extraCerts]
        cs4 == cs3 \cup {"ossl_cmp_msg_add_extraCerts"} \cup x.calls
        cs5 == cs4 \cup {"ossl_cmp_general_name_is_NULL_DN"}
    IN
    IF sel.ret = 0 THEN err(sel.msg, sel.errs, sel.calls)
    ELSE IF p.prot = NULLP THEN err(m3, p.errs, cs3)
    ELSE IF ~x.ok THEN err(m4, <<>>, cs4)
    ELSE IF MissingSenderIdentification(m4)
    THEN err(m4, <<"CMP_R_MISSING_SENDER_IDENTIFICATION">>, cs5)
    ELSE Outcome(m4, 1, <<>>, cs5)

\* ossl_cmp_msg_protect, had unprotectedSend been tested after the path selection.
ossl_cmp_msg_protect_LateUnprotectedSend(c, m, f) ==
    IF c.unprotectedSend
    THEN Outcome(SelectPath(c, StripProtection(m), f).msg, 1, <<>>, {})
    ELSE ProtectSteps(c, StripProtection(m), f)

\* ossl_cmp_msg_protect(ctx, msg): the protection of msg is removed; unless
\* the context asks for unprotected sending, msg is protected anew.  Result
\* [msg, ret, errs, calls].
ossl_cmp_msg_protect(c, m, f) ==
    IF c.unprotectedSend
    THEN Outcome(StripProtection(m), 1, <<>>, {})
    ELSE ProtectSteps(c, StripProtection(m), f)

(***************************************************************************)
(* The contexts and messages a behaviour starts from.                      *)
(***************************************************************************)
\* STACK_OF(X509) values of the context: absent, or a list (extraCertsOut may
\* name a certificate twice).
UntrustedPools == {NULLP, Stack(<<"certB", "root">>)}
ExtraCertsOutLists == {NULLP, Stack(<<"certB", "certB">>)}

\* cert and pkey of the context: none, one of them, a matching pair, a pair
\* that does not match, a matching pair whose certificate has no key id.
Credentials ==
    {<<NULL, NULL>>, <<"certA", NULL>>, <<NULL, "keyA">>, <<"certA", "keyA">>,
     <<"certA", "keyB">>, <<"certB", "keyB">>}

Contexts ==
    {[secretValue |-> s, cert |-> ck[1], pkey |-> ck[2], untrusted_certs |-> u,
      extraCertsOut |-> o, unprotectedSend |-> b, referenceValue |-> r,
      digest |-> "sha256", pbm_slen |-> 16, pbm_owf |-> "sha256",
      pbm_itercnt |-> 500, pbm_mac |-> "hmac-sha1"] :
        s \in {NULL, "secret"}, ck \in Credentials, u \in UntrustedPools,
        o \in ExtraCertsOutLists, b \in BOOLEAN, r \in {NULL, "ref"}}

\* The extraCerts a message may carry when it is handed over: none, an empty
\* list, or certificates as received (a decoded message may repeat one).
InitExtraCerts ==
    {NULLP, Stack(<<>>), Stack(<<"certA">>), Stack(<<"certB", "certA">>),
     Stack(<<"root", "root">>)}

\* A protection left on the message by an earlier protection or by its sender.
OldAlg == [oid |-> "sha256WithRSAEncryption", ptype |-> V_ASN1_UNDEF,
           pval |-> NULLP, fresh |-> FALSE]
OldProtection == [bytes |-> <<"old">>, bitsLeft |-> TRUE, fresh |-> FALSE]

Messages ==
    {[sender |-> sn, senderKID |-> kid, protectionAlg |-> pa[1],
      protection |-> pa[2], extraCerts |-> x, body |-> "body"] :
        sn \in {"NULL-DN", "CN=sender"}, kid \in {NULL, "kid0"},
        pa \in {<<NULLP, NULLP>>, <<OldAlg, OldProtection>>}, x \in InitExtraCerts}

\* Entering a call: the objects the message holds are no longer fresh.
Aged(m) ==
    [m EXCEPT !.protectionAlg = IF @ = NULLP THEN @ ELSE [@ EXCEPT !.fresh = FALSE],
              !.protection = IF @ = NULLP THEN @ ELSE [@ EXCEPT !.fresh = FALSE]]

\* The MAC keys the caller holds; it keeps one reference on each.
MacKeys == {"k1", "k2"}

\* Before the first call on MAC signature contexts: no PROV_MAC_CTX, no
\* property string and no EVP_MAC_CTX is allocated; the only reference on
\* each key is the caller's.
NoMacContexts ==
    [ctxs |-> <<>>, strs |-> <<>>, macs |-> <<>>, refs |-> [k \in MacKeys |-> 1],
     ub |-> FALSE, op |-> NULLP, ret |-> 0, pre |-> NULLP, n |-> 0]

\* No MAC signature context was made.
MacIdle == pmac = NoMacContexts

\* No kTLS socket is read.
KtlsIdle == kt = NULLP

\* No session call was made yet, and no backend is there.
SessQuiet ==
    /\ be = NULLP /\ pwcache = FALSE /\ spre = NULLP /\ sop = NULLP
    /\ sret = NULLP /\ scalls = <<>> /\ nloads = 0 /\ delivered = <<>> /\ leaks = 0
    /\ info = NULLP /\ nsteps = 0

SessIdle == SessQuiet /\ MacIdle /\ KtlsIdle

StoreQuiet ==
    /\ reg = NULLP /\ uri = <<>> /\ tried = <<>> /\ sess = NULLP /\ lctx = <<>>
    /\ handles = <<>> /\ errq = <<>> /\ ub = FALSE /\ nopen = 0

StoreIdle == StoreQuiet /\ SessIdle

CmpIdle ==
    /\ ctx = NULLP /\ msg = NULLP /\ pre = NULLP /\ op = "none" /\ ret = -1
    /\ errs = <<>> /\ calls = {} /\ ncalls = 0

CmpStart ==
    /\ ctx \in Contexts
    /\ msg \in Messages
    /\ pre = [msg |-> msg, op |-> "none", ret |-> -1]
    /\ op = "none" /\ ret = -1 /\ errs = <<>> /\ calls = {} /\ ncalls = 0

\* The state after a call with outcome r.
Called(name, m0, r) ==
    /\ pre' = [msg |-> m0, op |-> op, ret |-> ret]
    /\ msg' = r.msg /\ ret' = r.ret /\ errs' = r.errs /\ calls' = r.calls
    /\ op' = name /\ ncalls' = ncalls + 1
    /\ UNCHANGED ctx

(***************************************************************************)
(* Message protection: the caller protects, and re-protects, the message.  *)
(***************************************************************************)
Protect ==
    /\ ncalls < MaxCalls
    /\ \E f \in FailPoints :
         Called("protect", Aged(msg), ossl_cmp_msg_protect(ctx, Aged(msg), f))
    /\ UNCHANGED storeVars
    /\ UNCHANGED provVars
    /\ UNCHANGED sessVars

InitProtect == CmpStart /\ StoreIdle
NextProtect == Protect
SpecProtect == InitProtect /\ [][NextProtect]_vars

(***************************************************************************)
(* The extra-certificates assembler called on its own.                     *)
(***************************************************************************)
AddExtraCerts ==
    /\ ncalls < MaxCalls
    /\ \E f \in {"none", "sk_new", "add_own", "add_chain", "add_out"} :
         LET x == ossl_cmp_msg_add_extraCerts(ctx, msg, f)
         IN Called("add_extraCerts", msg,
                   Outcome([msg EXCEPT !.extraCerts = x.extraCerts],
                           IF x.ok THEN 1 ELSE 0, <<>>, x.calls))
    /\ UNCHANGED storeVars
    /\ UNCHANGED provVars
    /\ UNCHANGED sessVars

InitAssembler == CmpStart /\ StoreIdle
NextAssembler == AddExtraCerts
SpecExtraCerts == InitAssembler /\ [][NextAssembler]_vars

(***************************************************************************)
(* The protection engine called on its own, on a message whose header      *)
(* names any protection algorithm.                                         *)
(***************************************************************************)
\* The protectionAlg of the message: none, PasswordBasedMac with parameters,
\* without, or with parameters that do not decode, a signature algorithm, and
\* an identifier no digest belongs to.
CalcAlgs ==
    {NULLP,
     [oid |-> NID_id_PasswordBasedMAC, ptype |-> V_ASN1_SEQUENCE,
      pval |-> OSSL_CRMF_pbmp_new(16, "sha256", 500, "hmac-sha1"), fresh |-> FALSE],
     [oid |-> NID_id_PasswordBasedMAC, ptype |-> V_ASN1_UNDEF, pval |-> NULLP,
      fresh |-> FALSE],
     [oid |-> NID_id_PasswordBasedMAC, ptype |-> V_ASN1_SEQUENCE,
      pval |-> Undecodable, fresh |-> FALSE],
     OldAlg,
     [oid |-> "id-unknown", ptype |-> V_ASN1_UNDEF, pval |-> NULLP, fresh |-> FALSE]}

CalcMessages ==
    {[sender |-> "CN=sender", senderKID |-> kid, protectionAlg |-> a,
      protection |-> NULLP, extraCerts |-> NULLP, body |-> "body"] :
        kid \in {NULL, "kid0"}, a \in CalcAlgs}

CalcStart ==
    /\ ctx \in Contexts
    /\ msg \in CalcMessages
    /\ pre = [msg |-> msg, op |-> "none", ret |-> -1]
    /\ op = "none" /\ ret = -1 /\ errs = <<>> /\ calls = {} /\ ncalls = 0

\* The caller computes the protection of the message; sret is the bit string
\* returned, sop.arg.fail tells whether the MAC or signature primitive failed.
CalcProtection ==
    /\ ncalls < MaxCalls
    /\ \E fail \in BOOLEAN :
         LET r == ossl_cmp_calc_protection(ctx, msg, fail)
         IN /\ Called("calc_protection", msg,
                      Outcome(msg, IF r.prot = NULLP THEN 0 ELSE 1, r.errs, r.calls))
            /\ sret' = r.prot
            /\ sop' = [name |-> "calc_protection", arg |-> [fail |-> fail]]
    /\ UNCHANGED storeVars
    /\ UNCHANGED provVars
    /\ UNCHANGED <<be, pwcache, spre, scalls, nloads, delivered, leaks, info, nsteps>>

InitCalc == CalcStart /\ StoreIdle
NextCalc == CalcProtection
SpecCalc == InitCalc /\ [][NextCalc]_vars

(***************************************************************************)
(* OSSL_STORE.  A C string is the sequence of its characters.              *)
(***************************************************************************)
\* How many opens one behaviour makes.
MaxOpens == 1

\* sizeof(scheme_copy)
SchemeCopySize == 256

FileScheme == <<"f", "i", "l", "e">>

Min(a, b) == IF a < b THEN a ELSE b

\* OPENSSL_strlcpy(dst, src, size): at most size - 1 characters are copied.
OPENSSL_strlcpy(src, size) == SubSeq(src, 1, Min(Len(src), size - 1))

\* strchr(s, ch): the position of the first ch in s, 0 when there is none.
strchr(s, ch) ==
    IF \E i \in 1..Len(s) : s[i] = ch
    THEN CHOOSE i \in 1..Len(s) : s[i] = ch /\ \A j \in 1..(i - 1) : s[j] # ch
    ELSE 0

\* tolower on the letters that occur.
ToLower(ch) ==
    CASE ch = "F" -> "f" [] ch = "I" -> "i" [] ch = "L" -> "l" [] ch = "E" -> "e"
      [] ch = "H" -> "h" [] ch = "T" -> "t" [] ch = "P" -> "p" [] OTHER -> ch

\* strcasecmp(a, b) = 0
EqualIgnoringCase(a, b) ==
    Len(a) = Len(b) /\ \A i \in 1..Len(a) : ToLower(a[i]) = ToLower(b[i])

\* strncmp(a, b, n) = 0
EqualUpTo(a, b, n) ==
    SubSeq(a, 1, Min(Len(a), n)) = SubSeq(b, 1, Min(Len(b), n))

\* CandidateSchemes, had the scheme been compared with "file" by strcmp.
CandidateSchemes_CaseSensitive(u) ==
    LET copy == OPENSSL_strlcpy(u, SchemeCopySize)
        i == strchr(copy, ":")
        scheme == SubSeq(copy, 1, i - 1)
        p == SubSeq(copy, i + 1, Len(copy))
    IN IF i = 0 THEN <<FileScheme>>
       ELSE IF scheme = FileScheme THEN <<FileScheme>>
       ELSE IF EqualUpTo(p, <<"/", "/">>, 2) THEN <<scheme>>
       ELSE <<FileScheme, scheme>>

\* CandidateSchemes, had "//" not invalidated the file scheme.
CandidateSchemes_FileKept(u) ==
    LET copy == OPENSSL_strlcpy(u, SchemeCopySize)
        i == strchr(copy, ":")
        scheme == SubSeq(copy, 1, i - 1)
    IN IF i = 0 THEN <<FileScheme>>
       ELSE IF EqualIgnoringCase(scheme, FileScheme) THEN <<FileScheme>>
       ELSE <<FileScheme, scheme>>

(***************************************************************************)
(* The schemes OSSL_STORE_open_with_libctx puts in schemes[]: "file"       *)
(* first; the text before the first ':' of the uri second unless it is     *)
(* "file" in any letter case; "file" dropped when "//" follows the ':'.    *)
(***************************************************************************)
CandidateSchemes(u) ==
    LET copy == OPENSSL_strlcpy(u, SchemeCopySize)
        i == strchr(copy, ":")
        scheme == SubSeq(copy, 1, i - 1)
        p == SubSeq(copy, i + 1, Len(copy))
    IN IF i = 0 THEN <<FileScheme>>
       ELSE IF EqualIgnoringCase(scheme, FileScheme) THEN <<FileScheme>>
       ELSE IF EqualUpTo(p, <<"/", "/">>, 2) THEN <<scheme>>
       ELSE <<FileScheme, scheme>>

\* The loader a scheme has: "registered" (ossl_store_get0_loader_int finds
\* one), "provided" (none registered, OSSL_STORE_LOADER_fetch finds one) or
\* "none".  All schemes other than "file" share one entry of reg.
LoaderKind(scheme) == IF scheme = FileScheme THEN reg.file ELSE reg.other

\* The locals of OSSL_STORE_open_with_libctx across its loop.  loader_ctx and
\* fetched_loader are positions in lctx and handles, 0 for NULL.
OpenLocals ==
    [loader |-> NULLP, fetched_loader |-> 0, loader_ctx |-> 0, tried |-> <<>>,
     lctx |-> lctx, handles |-> handles, errq |-> errq]

(***************************************************************************)
(* One round of the loop of OSSL_STORE_open_with_libctx, for one scheme.   *)
(* `opens`: the loader's open succeeds; `setok`: p_set_ctx_params succeeds.*)
(***************************************************************************)
TryScheme(st, scheme, propq, opens, setok) ==
    LET kind == LoaderKind(scheme)
        st1 == [st EXCEPT !.tried = Append(@, scheme)]
        lc == Len(st.lctx) + 1
        h == Len(st.handles) + 1
        newctx == [scheme |-> scheme, kind |-> kind, open |-> TRUE, closes |-> 0]
        fetched == [st1 EXCEPT !.handles = Append(@, [scheme |-> scheme, frees |-> 0])]
    IN
    IF kind = "registered" THEN
        IF opens
        THEN [st1 EXCEPT !.loader = [scheme |-> scheme, kind |-> kind],
                         !.loader_ctx = lc, !.lctx = Append(@, newctx)]
        ELSE [st1 EXCEPT !.loader = [scheme |-> scheme, kind |-> kind],
                         !.errq = Append(@, "open failed")]
    ELSE IF kind = "provided" THEN
        IF ~opens
        THEN [fetched EXCEPT !.handles[h].frees = 1, !.fetched_loader = 0,
                             !.loader = NULLP, !.errq = Append(@, "open failed")]
        ELSE IF propq # NULL /\ ~setok
        THEN [fetched EXCEPT !.lctx = Append(@, [newctx EXCEPT !.open = FALSE,
                                                               !.closes = 1]),
                             !.loader_ctx = lc,
                             !.handles[h].frees = 1, !.fetched_loader = 0,
                             !.loader = NULLP,
                             !.errq = Append(@, "set_ctx_params failed")]
        ELSE [fetched EXCEPT !.lctx = Append(@, newctx), !.loader_ctx = lc,
                             !.fetched_loader = h,
                             !.loader = [scheme |-> scheme, kind |-> kind]]
    ELSE [st1 EXCEPT !.loader = NULLP]

\* The loop over schemes[i..]: it runs while loader_ctx is NULL.  opens[i]
\* tells whether the i-th scheme's loader opens the uri.
RECURSIVE TrySchemes(_, _, _, _, _, _)
TrySchemes(st, schemes, i, propq, opens, setok) ==
    IF st.loader_ctx # 0 \/ i > Len(schemes) THEN st
    ELSE TrySchemes(TryScheme(st, schemes[i], propq, opens[i], setok),
                    schemes, i + 1, propq, opens, setok)


(***************************************************************************)
(* ossl_store_close_it(ctx) on the fields loader, fetched_loader and        *)
(* loader_ctx of st: the loader context is closed through the loader, the  *)
(* fetched loader handle is freed.  Result: st with lctx and handles       *)
(* updated, and ub set when ctx->loader is NULL (it is dereferenced).      *)
(***************************************************************************)
ossl_store_close_it(st) ==
    IF st.loader = NULLP
    THEN [lctx |-> st.lctx, handles |-> st.handles, ub |-> TRUE]
    ELSE [lctx |-> [st.lctx EXCEPT ![st.loader_ctx].open = FALSE,
                                   ![st.loader_ctx].closes = @ + 1],
          handles |-> IF st.fetched_loader = 0 THEN st.handles
                      ELSE [st.handles EXCEPT ![st.fetched_loader].frees = @ + 1],
          ub |-> FALSE]

\* The allocations of OSSL_STORE_open_with_libctx that can fail once a loader
\* context is there ("none": no failure).
OpenFailPoints == {"none", "strdup", "zalloc", "pw_set_ui_method", "pw_caching"}

\* FinishOpen, had the errors raised since ERR_set_mark been kept on success.
FinishOpen_KeepingErrors(st, mark, propq, ui_method, post_process, f) ==
    LET failed(e) ==
            LET c == ossl_store_close_it(st)
            IN [sess |-> NULLP, tried |-> st.tried, lctx |-> c.lctx,
                errq |-> st.errq \o e, ub |-> c.ub,
                handles |-> IF st.fetched_loader = 0 \/ c.ub THEN c.handles
                            ELSE [c.handles EXCEPT ![st.fetched_loader].frees = @ + 1]]
    IN
    IF st.loader_ctx = 0
    THEN [sess |-> NULLP, tried |-> st.tried, lctx |-> st.lctx,
          handles |-> st.handles, errq |-> st.errq, ub |-> FALSE]
    ELSE IF (propq # NULL /\ f = "strdup") \/ f = "zalloc"
    THEN failed(<<"ERR_R_MALLOC_FAILURE">>)
    ELSE IF (ui_method # NULL /\ f = "pw_set_ui_method") \/ f = "pw_caching"
    THEN failed(<<"ERR_R_CRYPTO_LIB">>)
    ELSE [sess |-> [properties |-> propq, fetched_loader |-> st.fetched_loader,
                    loader |-> st.loader, loader_ctx |-> st.loader_ctx,
                    post_process |-> post_process, ui_method |-> ui_method,
                    loading |-> FALSE, expected_type |-> 0,
                    error_flag |-> FALSE, cached_info |-> NULLP],
          tried |-> st.tried, lctx |-> st.lctx, handles |-> st.handles,
          errq |-> st.errq, ub |-> FALSE]

(***************************************************************************)
(* OSSL_STORE_open_with_libctx after its loop.  `mark` is the error queue  *)
(* at ERR_set_mark.  Result [sess, lctx, handles, errq, ub, tried].        *)
(***************************************************************************)
FinishOpen(st, mark, propq, ui_method, post_process, f) ==
    LET failed(e) ==
            \* err: the loader context is closed through a temporary ctx, the
            \* fetched loader is freed (again), NULL is returned
            LET c == ossl_store_close_it(st)
            IN [sess |-> NULLP, tried |-> st.tried, lctx |-> c.lctx,
                errq |-> st.errq \o e, ub |-> c.ub,
                handles |-> IF st.fetched_loader = 0 \/ c.ub THEN c.handles
                            ELSE [c.handles EXCEPT ![st.fetched_loader].frees = @ + 1]]
    IN
    IF st.loader_ctx = 0
    THEN [sess |-> NULLP, tried |-> st.tried, lctx |-> st.lctx,
          handles |-> st.handles, errq |-> st.errq, ub |-> FALSE]
    ELSE IF (propq # NULL /\ f = "strdup") \/ f = "zalloc"
    THEN failed(<<"ERR_R_MALLOC_FAILURE">>)
    ELSE IF (ui_method # NULL /\ f = "pw_set_ui_method") \/ f = "pw_caching"
    THEN failed(<<"ERR_R_CRYPTO_LIB">>)
    ELSE [sess |-> [properties |-> propq, fetched_loader |-> st.fetched_loader,
                    loader |-> st.loader, loader_ctx |-> st.loader_ctx,
                    post_process |-> post_process, ui_method |-> ui_method,
                    loading |-> FALSE, expected_type |-> 0,
                    error_flag |-> FALSE, cached_info |-> NULLP],
          tried |-> st.tried, lctx |-> st.lctx, handles |-> st.handles,
          errq |-> mark, ub |-> FALSE]

\* OSSL_STORE_open_with_libctx(uri, libctx, propq, ui_method, ui_data,
\* post_process, post_process_data).
OSSL_STORE_open_with_libctx(u, propq, ui_method, post_process, opens, setok, f) ==
    FinishOpen(TrySchemes(OpenLocals, CandidateSchemes(u), 1, propq, opens, setok),
               errq, propq, ui_method, post_process, f)

\* The pieces uris are made of: what may stand before the first ':', the
\* separator, and what follows.
UriPrefixes ==
    {<<>>, FileScheme, <<"F", "i", "L", "e">>, <<"f", "i", "l">>,
     <<"h", "t", "t", "p">>, <<"/", "a">>}
UriSeparators == {<<>>, <<":">>, <<":", "/", "/">>}
UriRests == {<<"x">>, <<"/", "x">>, <<"b", ":", "/", "/", "x">>}

\* The uris opened: a prefix, a separator and a rest, in every combination.
URIs == {pf \o sp \o rs : pf \in UriPrefixes, sp \in UriSeparators, rs \in UriRests}

LoaderKinds == {"registered", "provided", "none"}

StoreStart ==
    /\ reg \in [file : LoaderKinds, other : LoaderKinds]
    /\ uri \in URIs
    /\ tried = <<>> /\ sess = NULLP /\ lctx = <<>> /\ handles = <<>>
    /\ errq \in {<<>>, <<"earlier error">>}
    /\ ub = FALSE /\ nopen = 0

(***************************************************************************)
(* Opening: the caller opens the uri, with or without a property query, a  *)
(* UI method and a post-processing hook.                                   *)
(***************************************************************************)
Open ==
    /\ nopen < MaxOpens /\ ~ub
    /\ \E propq \in {NULL, "provider=x"}, ui_method \in {NULL, "ui"},
          opens \in [1..2 -> BOOLEAN], setok \in BOOLEAN, f \in OpenFailPoints :
         \* a failure point or outcome that the arguments rule out is not armed
         /\ (propq = NULL => setok /\ f # "strdup")
         /\ (ui_method = NULL => f # "pw_set_ui_method")
         /\ LET r == OSSL_STORE_open_with_libctx(uri, propq, ui_method, NULL,
                                                 opens, setok, f)
            IN /\ sess' = r.sess /\ tried' = r.tried /\ lctx' = r.lctx
               /\ handles' = r.handles /\ errq' = r.errq /\ ub' = r.ub
    /\ nopen' = nopen + 1
    \* the error queue and the loader contexts the call was made with
    /\ spre' = [errq |-> errq, lctx |-> lctx, handles |-> handles]
    /\ UNCHANGED <<reg, uri>>
    /\ UNCHANGED cmpVars
    /\ UNCHANGED provVars
    /\ UNCHANGED <<be, pwcache, sop, sret, scalls, nloads, delivered, leaks, info,
                   nsteps>>

InitOpen == StoreStart /\ SessIdle /\ CmpIdle
NextOpen == Open
SpecOpen == InitOpen /\ [][NextOpen]_vars

(***************************************************************************)
(* OSSL_STORE_attach: one scheme ("file" when none is given), looked up as *)
(* in one round of the loop of OSSL_STORE_open_with_libctx.                *)
(***************************************************************************)
AttachFailPoints == {"none", "zalloc"}

\* A fresh OSSL_STORE_CTX as OPENSSL_zalloc leaves it, with the fields named.
NewSession(properties, st, post_process, ui_method) ==
    [properties |-> properties, fetched_loader |-> st.fetched_loader,
     loader |-> st.loader, loader_ctx |-> st.loader_ctx,
     post_process |-> post_process, ui_method |-> ui_method,
     loading |-> FALSE, expected_type |-> 0,
     error_flag |-> FALSE, cached_info |-> NULLP]

\* OSSL_STORE_attach(bp, scheme, libctx, propq, ui_method, ui_data,
\* post_process, post_process_data).  `attaches`: the loader's attach
\* succeeds.  Result [sess, lctx, handles, errq, ub, tried].
OSSL_STORE_attach(scheme, propq, ui_method, post_process, attaches, setok, f) ==
    LET st == TryScheme(OpenLocals, IF scheme = NULL THEN FileScheme ELSE scheme,
                        propq, attaches, setok)
    IN
    IF st.loader_ctx = 0
    THEN [sess |-> NULLP, tried |-> st.tried, lctx |-> st.lctx,
          handles |-> st.handles, errq |-> st.errq, ub |-> FALSE]
    ELSE IF f = "zalloc"
    THEN [sess |-> NULLP, tried |-> st.tried, lctx |-> st.lctx,
          handles |-> st.handles,
          errq |-> Append(st.errq, "ERR_R_MALLOC_FAILURE"), ub |-> FALSE]
    ELSE [sess |-> NewSession(NULL, st, post_process, ui_method),
          tried |-> st.tried, lctx |-> st.lctx, handles |-> st.handles,
          errq |-> st.errq, ub |-> FALSE]

(***************************************************************************)
(* OSSL_STORE_INFO: a type and the data it carries.                        *)
(***************************************************************************)
OSSL_STORE_INFO_NAME == 1
OSSL_STORE_INFO_PARAMS == 2
OSSL_STORE_INFO_PUBKEY == 3
OSSL_STORE_INFO_PKEY == 4
OSSL_STORE_INFO_CERT == 5
OSSL_STORE_INFO_CRL == 6

\* store_info_new(type, data): the union _ holds data, and for a name the
\* description after it; OPENSSL_zalloc leaves the description NULL.
Info(type, data) == [type |-> type, data |-> data, desc |-> NULL]

\* sk_OSSL_STORE_INFO: the stack ctx->cached_info points to.
InfoStack(s) == [infos |-> s]

\* One call of a loader function, of a hook or of a destructor, and the
\* object it was made on (NULLP when it takes none).
Call(fn, v) == [fn |-> fn, v |-> v]

(***************************************************************************)
(* The result of a session call: the session, the backend, the passphrase  *)
(* cache, the return value, the error queue and the calls made.  A call    *)
(* that dereferences ctx->loader while it is NULL has undefined behaviour. *)
(***************************************************************************)
Result(s, b, pw, r, e, cs) ==
    [sess |-> s, be |-> b, pw |-> pw, ret |-> r, errq |-> e, calls |-> cs,
     ub |-> FALSE]

Undefined(s, b, pw, e) ==
    [sess |-> s, be |-> b, pw |-> pw, ret |-> NULLP, errq |-> e, calls |-> <<>>,
     ub |-> TRUE]

\* OSSL_STORE_expect, had it not looked at ctx->loading.
OSSL_STORE_expect_AfterLoading(s, b, pw, e, expected_type, accepts) ==
    LET s1 == [s EXCEPT !.expected_type = expected_type]
        b1 == IF accepts THEN [b EXCEPT !.expect = expected_type] ELSE b
    IN IF s.loader = NULLP THEN Undefined(s1, b, pw, e)
       ELSE Result(s1, b1, pw, IF accepts THEN 1 ELSE 0, e, <<>>)

\* OSSL_STORE_expect(ctx, expected_type).  `accepts`: the loader's
\* set_ctx_params (a fetched loader) or expect (a registered one) returns 1.
OSSL_STORE_expect(s, b, pw, e, expected_type, accepts) ==
    IF s.loading
    THEN Result(s, b, pw, 0, Append(e, "OSSL_STORE_R_LOADING_STARTED"), <<>>)
    ELSE
    LET s1 == [s EXCEPT !.expected_type = expected_type]
        b1 == IF accepts THEN [b EXCEPT !.expect = expected_type] ELSE b
        status == IF accepts THEN 1 ELSE 0
    IN
    IF s.fetched_loader # 0
    THEN Result(s1, b1, pw, status, e, <<Call("p_set_ctx_params", NULLP)>>)
    ELSE IF s.loader = NULLP THEN Undefined(s1, b, pw, e)
    ELSE IF b.optional
    THEN Result(s1, b1, pw, status, e, <<Call("expect", NULLP)>>)
    ELSE Result(s1, b, pw, 1, e, <<>>)

\* OSSL_STORE_find(ctx, search).  `bld`: OSSL_PARAM_BLD_new succeeds;
\* `accepts`: the loader's set_ctx_params or find returns 1.
OSSL_STORE_find(s, b, pw, e, search, bld, accepts) ==
    IF s.loading
    THEN Result(s, b, pw, 0, Append(e, "OSSL_STORE_R_LOADING_STARTED"), <<>>)
    ELSE
    LET b1 == IF accepts THEN [b EXCEPT !.search = search] ELSE b
        status == IF accepts THEN 1 ELSE 0
    IN
    IF s.fetched_loader # 0
    THEN IF ~bld
         THEN Result(s, b, pw, 0, Append(e, "ERR_R_MALLOC_FAILURE"), <<>>)
         ELSE Result(s, b1, pw, status, e, <<Call("p_set_ctx_params", NULLP)>>)
    ELSE IF s.loader = NULLP THEN Undefined(s, b, pw, e)
    ELSE IF ~b.optional
    THEN Result(s, b, pw, 0, Append(e, "OSSL_STORE_R_UNSUPPORTED_OPERATION"), <<>>)
    ELSE Result(s, b1, pw, status, e, <<Call("find", NULLP)>>)

(***************************************************************************)
(* The OSSL_STORE_INFO constructors and accessors.  `ok` tells whether the *)
(* allocation the function makes succeeds.  A constructor's result is      *)
(* [ret, errq]; so is an accessor's.                                       *)
(***************************************************************************)
store_info_new(type, data, ok) == IF ok THEN Info(type, data) ELSE NULLP

InfoTypes ==
    {OSSL_STORE_INFO_NAME, OSSL_STORE_INFO_PARAMS, OSSL_STORE_INFO_PUBKEY,
     OSSL_STORE_INFO_PKEY, OSSL_STORE_INFO_CERT, OSSL_STORE_INFO_CRL}

\* OSSL_STORE_INFO_new_NAME, _PARAMS, _PUBKEY, _PKEY, _CERT and _CRL: each is
\* store_info_new with its own type, raising ERR_R_MALLOC_FAILURE on NULL.
OSSL_STORE_INFO_new(type, data, e, ok) ==
    LET i == store_info_new(type, data, ok)
    IN [ret |-> i, errq |-> IF i = NULLP THEN Append(e, "ERR_R_MALLOC_FAILURE") ELSE e]

\* OSSL_STORE_INFO_set0_NAME_description(info, desc)
OSSL_STORE_INFO_set0_NAME_description(i, desc, e) ==
    IF i.type # OSSL_STORE_INFO_NAME
    THEN [ret |-> 0, info |-> i, errq |-> Append(e, "ERR_R_PASSED_INVALID_ARGUMENT")]
    ELSE [ret |-> 1, info |-> [i EXCEPT !.desc = desc], errq |-> e]

OSSL_STORE_INFO_get_type(i) == i.type

\* The error each get1 accessor raises on an object of another type.
NotA(type) ==
    CASE type = OSSL_STORE_INFO_NAME -> "OSSL_STORE_R_NOT_A_NAME"
      [] type = OSSL_STORE_INFO_PARAMS -> "OSSL_STORE_R_NOT_PARAMETERS"
      [] type = OSSL_STORE_INFO_PUBKEY -> "OSSL_STORE_R_NOT_A_PUBLIC_KEY"
      [] type = OSSL_STORE_INFO_PKEY -> "OSSL_STORE_R_NOT_A_PRIVATE_KEY"
      [] type = OSSL_STORE_INFO_CERT -> "OSSL_STORE_R_NOT_A_CERTIFICATE"
      [] type = OSSL_STORE_INFO_CRL -> "OSSL_STORE_R_NOT_A_CRL"

\* An accessor that hands out the data whatever the object's type.
OSSL_STORE_INFO_get0_Unchecked(type, i, e) == [ret |-> i.data, errq |-> e]

\* OSSL_STORE_INFO_get0_NAME, _PARAMS, _PUBKEY, _PKEY, _CERT, _CRL: the data
\* of an object of the accessor's type, NULL for any other.
OSSL_STORE_INFO_get0(type, i, e) ==
    [ret |-> IF i.type = type THEN i.data ELSE NULL, errq |-> e]

\* OSSL_STORE_INFO_get0_NAME_description
OSSL_STORE_INFO_get0_NAME_description(i, e) ==
    [ret |-> IF i.type = OSSL_STORE_INFO_NAME THEN i.desc ELSE NULL, errq |-> e]

\* OSSL_STORE_INFO_get1_NAME copies the name with OPENSSL_strdup (`ok`: the
\* copy succeeds); _get1_PARAMS, _PUBKEY, _PKEY, _CERT, _CRL take a reference.
OSSL_STORE_INFO_get1(type, i, e, ok) ==
    IF i.type # type THEN [ret |-> NULL, errq |-> Append(e, NotA(type))]
    ELSE IF type = OSSL_STORE_INFO_NAME /\ ~ok
    THEN [ret |-> NULL, errq |-> Append(e, "ERR_R_MALLOC_FAILURE")]
    ELSE [ret |-> i.data, errq |-> e]

\* OSSL_STORE_INFO_get1_NAME_description: a copy of the description, of ""
\* when there is none.
OSSL_STORE_INFO_get1_NAME_description(i, e, ok) ==
    IF i.type # OSSL_STORE_INFO_NAME
    THEN [ret |-> NULL, errq |-> Append(e, "OSSL_STORE_R_NOT_A_NAME")]
    ELSE IF ~ok THEN [ret |-> NULL, errq |-> Append(e, "ERR_R_MALLOC_FAILURE")]
    ELSE [ret |-> IF i.desc # NULL THEN i.desc ELSE "", errq |-> e]

(***************************************************************************)
(* The search criteria.  A constructor's result is [ret, errq, leaks]:     *)
(* leaks counts the blocks it allocated and neither freed nor returned.    *)
(***************************************************************************)
OSSL_STORE_SEARCH_BY_NAME == 1
OSSL_STORE_SEARCH_BY_ISSUER_SERIAL == 2
OSSL_STORE_SEARCH_BY_KEY_FINGERPRINT == 3
OSSL_STORE_SEARCH_BY_ALIAS == 4

\* An OSSL_STORE_SEARCH as OPENSSL_zalloc leaves it.
ZeroSearch ==
    [search_type |-> 0, name |-> NULL, serial |-> NULL, digest |-> NULL,
     string |-> NULL, stringlength |-> 0]

Digests == {"SHA1", "SHA256"}

\* EVP_MD_size(digest)
EVP_MD_size(digest) == CASE digest = "SHA1" -> 20 [] digest = "SHA256" -> 32

Allocated(search, e) == [ret |-> search, errq |-> e, leaks |-> 0]

NotAllocated(e) ==
    [ret |-> NULLP, errq |-> Append(e, "ERR_R_MALLOC_FAILURE"), leaks |-> 0]

OSSL_STORE_SEARCH_by_name(name, e, ok) ==
    IF ~ok THEN NotAllocated(e)
    ELSE Allocated([ZeroSearch EXCEPT !.search_type = OSSL_STORE_SEARCH_BY_NAME,
                                      !.name = name], e)

OSSL_STORE_SEARCH_by_issuer_serial(name, serial, e, ok) ==
    IF ~ok THEN NotAllocated(e)
    ELSE Allocated([ZeroSearch EXCEPT !.search_type = OSSL_STORE_SEARCH_BY_ISSUER_SERIAL,
                                      !.name = name, !.serial = serial], e)

OSSL_STORE_SEARCH_by_key_fingerprint(digest, bytes, len, e, ok) ==
    IF ~ok THEN NotAllocated(e)
    ELSE IF digest # NULL /\ len # EVP_MD_size(digest)
    THEN \* the function returns NULL with `search` still allocated
         [ret |-> NULLP,
          errq |-> Append(e, "OSSL_STORE_R_FINGERPRINT_SIZE_DOES_NOT_MATCH_DIGEST"),
          leaks |-> 1]
    ELSE Allocated([ZeroSearch EXCEPT !.search_type = OSSL_STORE_SEARCH_BY_KEY_FINGERPRINT,
                                      !.digest = digest, !.string = bytes,
                                      !.stringlength = len], e)

Aliases == {"a", "bob"}

\* strlen(alias)
strlen(str) == CASE str = "a" -> 1 [] str = "bob" -> 3

OSSL_STORE_SEARCH_by_alias(alias, e, ok) ==
    IF ~ok THEN NotAllocated(e)
    ELSE Allocated([ZeroSearch EXCEPT !.search_type = OSSL_STORE_SEARCH_BY_ALIAS,
                                      !.string = alias, !.stringlength = strlen(alias)], e)

\* OSSL_STORE_supports_search, had it marked the session as loading.
OSSL_STORE_supports_search_Loading(s, b, pw, e, search_type, caps) ==
    Result([s EXCEPT !.loading = TRUE], b, pw,
           IF search_type \in caps.finds THEN 1 ELSE 0, e, <<>>)

(***************************************************************************)
(* OSSL_STORE_supports_search(ctx, search_type).  `caps` is what the       *)
(* loader declares: has_settable (a fetched loader has the function        *)
(* p_settable_ctx_params), names (the parameters that function lists) and  *)
(* finds (the search types a registered loader's find accepts when asked   *)
(* with a NULL context).  A registered loader has a find function when the *)
(* backend is `optional`.                                                  *)
(***************************************************************************)
OSSL_STORE_supports_search(s, b, pw, e, search_type, caps) ==
    IF s.fetched_loader # 0
    THEN IF ~caps.has_settable THEN Result(s, b, pw, 0, e, <<>>)
         ELSE LET p_subject == "subject" \in caps.names
                  p_issuer == "issuer" \in caps.names
                  p_serial == "serial" \in caps.names
                  p_fingerprint == "fingerprint" \in caps.names
                  p_alias == "alias" \in caps.names
                  supported == CASE search_type = OSSL_STORE_SEARCH_BY_NAME -> p_subject
                                 [] search_type = OSSL_STORE_SEARCH_BY_ISSUER_SERIAL ->
                                        p_issuer /\ p_serial
                                 [] search_type = OSSL_STORE_SEARCH_BY_KEY_FINGERPRINT ->
                                        p_fingerprint
                                 [] search_type = OSSL_STORE_SEARCH_BY_ALIAS -> p_alias
                                 [] OTHER -> FALSE
              IN Result(s, b, pw, IF supported THEN 1 ELSE 0, e,
                        <<Call("p_settable_ctx_params", NULLP)>>)
    ELSE IF s.loader = NULLP THEN Undefined(s, b, pw, e)
    ELSE IF ~b.optional THEN Result(s, b, pw, 0, e, <<>>)
    ELSE Result(s, b, pw, IF search_type \in caps.finds THEN 1 ELSE 0, e,
                <<Call("find", NULLP)>>)

\* OSSL_STORE_eof(ctx): the loader's eof function tells.
OSSL_STORE_eof(s, b) == b.eof

\* OSSL_STORE_error(ctx): ctx->error_flag with a fetched loader, the loader's
\* own error function with a registered one.
OSSL_STORE_error(s, b) == IF s.fetched_loader # 0 THEN s.error_flag ELSE b.error

\* The loader function OSSL_STORE_eof calls.
EofCall(s) == Call(IF s.fetched_loader # 0 THEN "p_eof" ELSE "eof", NULLP)

(***************************************************************************)
(* What one pull from the backend can do.  k: "obj" (objects were found:   *)
(* the first is handed over, a fetched loader's result callback leaves the *)
(* others in ctx->cached_info), "none" (nothing was found, no failure) or  *)
(* "fail"; pw: the passphrase callback was used, which caches the          *)
(* passphrase; eof: the backend is at its end after the pull.              *)
(***************************************************************************)
Pull(k, vs, pw, eof) == [k |-> k, vs |-> vs, pw |-> pw, eof |-> eof]

\* The objects a backend holds; Untyped is one whose type the loader left 0.
Cert == Info(OSSL_STORE_INFO_CERT, "certA")
PKey == Info(OSSL_STORE_INFO_PKEY, "keyA")
Crl == Info(OSSL_STORE_INFO_CRL, "crl")
Name == Info(OSSL_STORE_INFO_NAME, "name")
Untyped == Info(0, "blob")

\* How many pulls one OSSL_STORE_load call makes at most: the backend is at
\* its end after the last of them.
MaxPulls == 2

FetchedPulls ==
    { Pull("obj", <<v>>, FALSE, FALSE) : v \in {Cert, Crl, Name} }
    \cup { Pull("obj", <<Untyped>>, FALSE, TRUE), Pull("obj", <<PKey>>, TRUE, FALSE) }
    \cup { Pull("obj", <<Crl, Cert, PKey>>, TRUE, eof) : eof \in BOOLEAN }
    \cup { Pull("none", <<>>, FALSE, TRUE) }
    \cup { Pull("fail", <<>>, TRUE, FALSE), Pull("fail", <<>>, FALSE, TRUE) }

\* A registered loader hands over one object per load.
RegisteredPulls == { p \in FetchedPulls : Len(p.vs) <= 1 }

\* The pulls possible when n more pulls may be made.
PullsLeft(s, n) ==
    { p \in IF s.fetched_loader # 0 THEN FetchedPulls ELSE RegisteredPulls :
        n <= 1 => p.eof }

\* ctx->post_process: "skip_crl" ignores every CRL and keeps the rest.
Hook(post_process, v) ==
    IF post_process = "skip_crl" /\ v.type = OSSL_STORE_INFO_CRL THEN NULLP ELSE v

RECURSIVE LoadFrom(_, _)

\* Deliver, had the expected type not been tested.
Deliver_Unfiltered(st, v, n) ==
    LET s == st.sess
        hooked == s.post_process # NULL /\ v # NULLP
        v1 == IF hooked THEN Hook(s.post_process, v) ELSE v
        calls1 == IF hooked THEN Append(st.calls, Call("post_process", v))
                  ELSE st.calls
    IN
    IF hooked /\ v1 = NULLP
    THEN LoadFrom([st EXCEPT !.calls = calls1], n)
    ELSE {[st EXCEPT !.calls = Append(calls1, Call("ossl_pw_clear_passphrase_cache", NULLP)),
                     !.pw = FALSE, !.v = v1]}

\* Deliver, had an object the hook ignores ended the load with NULL.
Deliver_DiscardEnds(st, v, n) ==
    LET s == st.sess
        hooked == s.post_process # NULL /\ v # NULLP
        v1 == IF hooked THEN Hook(s.post_process, v) ELSE v
        calls1 == IF hooked THEN Append(st.calls, Call("post_process", v))
                  ELSE st.calls
    IN
    IF hooked /\ v1 = NULLP
    THEN {[st EXCEPT !.calls = calls1, !.v = NULLP]}
    ELSE IF /\ v1 # NULLP
            /\ s.expected_type # 0
            /\ v1.type # OSSL_STORE_INFO_NAME /\ v1.type # 0
            /\ s.expected_type # v1.type
    THEN LoadFrom([st EXCEPT !.calls = Append(calls1, Call("OSSL_STORE_INFO_free", v1))],
                  n)
    ELSE {[st EXCEPT !.calls = Append(calls1, Call("ossl_pw_clear_passphrase_cache", NULLP)),
                     !.pw = FALSE, !.v = v1]}

\* Deliver, had the passphrase cache been left as it is on return.
Deliver_KeepingPassphrase(st, v, n) ==
    LET s == st.sess
        hooked == s.post_process # NULL /\ v # NULLP
        v1 == IF hooked THEN Hook(s.post_process, v) ELSE v
        calls1 == IF hooked THEN Append(st.calls, Call("post_process", v))
                  ELSE st.calls
    IN
    IF hooked /\ v1 = NULLP
    THEN LoadFrom([st EXCEPT !.calls = calls1], n)
    ELSE IF /\ v1 # NULLP
            /\ s.expected_type # 0
            /\ v1.type # OSSL_STORE_INFO_NAME /\ v1.type # 0
            /\ s.expected_type # v1.type
    THEN LoadFrom([st EXCEPT !.calls = Append(calls1, Call("OSSL_STORE_INFO_free", v1))],
                  n)
    ELSE {[st EXCEPT !.calls = Append(calls1, Call("ossl_pw_clear_passphrase_cache", NULLP)),
                     !.v = v1]}

(***************************************************************************)
(* OSSL_STORE_load from the post_process test on, with the object v at     *)
(* hand: the hook, the expected-type test, the passphrase cache cleared.   *)
(* st is [sess, be, pw, calls, v]; the result is the set of final st.      *)
(***************************************************************************)
Deliver(st, v, n) ==
    LET s == st.sess
        hooked == s.post_process # NULL /\ v # NULLP
        v1 == IF hooked THEN Hook(s.post_process, v) ELSE v
        calls1 == IF hooked THEN Append(st.calls, Call("post_process", v))
                  ELSE st.calls
    IN
    IF hooked /\ v1 = NULLP
    THEN LoadFrom([st EXCEPT !.calls = calls1], n)
    ELSE IF /\ v1 # NULLP
            /\ s.expected_type # 0
            /\ v1.type # OSSL_STORE_INFO_NAME /\ v1.type # 0
            /\ s.expected_type # v1.type
    THEN LoadFrom([st EXCEPT !.calls = Append(calls1, Call("OSSL_STORE_INFO_free", v1))],
                  n)
    ELSE {[st EXCEPT !.calls = Append(calls1, Call("ossl_pw_clear_passphrase_cache", NULLP)),
                     !.pw = FALSE, !.v = v1]}

\* PullFrom, had a failing pull set ctx->error_flag without asking for the
\* backend's end.
PullFrom_FlagAlways(st, p, n) ==
    LET s == st.sess
        b1 == [st.be EXCEPT !.eof = p.eof]
        calls1 == Append(st.calls,
                         IF s.fetched_loader # 0
                         THEN Call("p_load", [cached |-> st.pw])
                         ELSE Call("load", NULLP))
    IN
    IF p.k = "fail"
    THEN {[st EXCEPT !.sess.error_flag = TRUE,
                     !.be = [b1 EXCEPT !.error = @ \/ ~p.eof], !.pw = st.pw \/ p.pw,
                     !.calls = calls1, !.v = NULLP]}
    ELSE IF p.k = "none"
    THEN Deliver([st EXCEPT !.be = b1, !.pw = st.pw \/ p.pw, !.calls = calls1],
                 NULLP, n - 1)
    ELSE Deliver([st EXCEPT !.sess.cached_info =
                                IF Len(p.vs) > 1 THEN InfoStack(Tail(p.vs)) ELSE @,
                            !.be = b1, !.pw = st.pw \/ p.pw, !.calls = calls1],
                 Head(p.vs), n - 1)

\* The backend is pulled: p_load of a fetched loader, load of a registered one.
PullFrom(st, p, n) ==
    LET s == st.sess
        b1 == [st.be EXCEPT !.eof = p.eof]
        pw1 == st.pw \/ p.pw
    IN
    IF s.fetched_loader # 0
    THEN \* the call is logged with what the passphrase cache holds as it is made
         LET calls1 == Append(st.calls, Call("p_load", [cached |-> st.pw]))
         IN IF p.k = "fail"
            THEN {[st EXCEPT !.sess.error_flag = IF ~OSSL_STORE_eof(s, b1) THEN TRUE ELSE @,
                             !.be = [b1 EXCEPT !.error = @ \/ ~p.eof], !.pw = pw1,
                             !.calls = Append(calls1, EofCall(s)), !.v = NULLP]}
            ELSE IF p.k = "none"
            THEN Deliver([st EXCEPT !.be = b1, !.pw = pw1, !.calls = calls1],
                         NULLP, n - 1)
            ELSE Deliver([st EXCEPT !.sess.cached_info =
                                        IF Len(p.vs) > 1 THEN InfoStack(Tail(p.vs))
                                        ELSE @,
                                    !.be = b1, !.pw = pw1, !.calls = calls1],
                         Head(p.vs), n - 1)
    ELSE LET calls1 == Append(st.calls, Call("load", NULLP))
         IN IF p.k = "obj"
            THEN Deliver([st EXCEPT !.be = b1, !.calls = calls1],
                         Head(p.vs), n - 1)
            ELSE Deliver([st EXCEPT !.be = [b1 EXCEPT !.error = @ \/ (p.k = "fail" /\ ~p.eof)],
                                    !.calls = calls1],
                         NULLP, n - 1)

\* LoadFrom, had it looked into the cache before asking the backend for its end.
LoadFrom_CacheFirst(st, n) ==
    LET s == st.sess
        calls1 == Append(st.calls, EofCall(s))
        s1 == IF s.cached_info # NULLP /\ s.cached_info.infos = <<>>
              THEN [s EXCEPT !.cached_info = NULLP] ELSE s
    IN
    IF s1.cached_info # NULLP
    THEN Deliver([st EXCEPT !.sess = [s1 EXCEPT !.cached_info =
                                                    InfoStack(Tail(s1.cached_info.infos))]],
                 Head(s1.cached_info.infos), n)
    ELSE IF OSSL_STORE_eof(s, st.be)
    THEN {[st EXCEPT !.sess = s1, !.calls = calls1, !.v = NULLP]}
    ELSE UNION { PullFrom([st EXCEPT !.sess = s1, !.calls = calls1], p, n) :
                 p \in PullsLeft(s1, n) }

\* LoadFrom, had it pulled from the backend without looking into the cache.
LoadFrom_BackendFirst(st, n) ==
    LET s == st.sess
        calls1 == Append(st.calls, EofCall(s))
    IN
    IF OSSL_STORE_eof(s, st.be)
    THEN {[st EXCEPT !.calls = calls1, !.v = NULLP]}
    ELSE UNION { PullFrom([st EXCEPT !.calls = calls1], p, n) : p \in PullsLeft(s, n) }

\* OSSL_STORE_load from the label `again` on.
LoadFrom(st, n) ==
    LET s == st.sess
        calls1 == Append(st.calls, EofCall(s))
        s1 == IF s.cached_info # NULLP /\ s.cached_info.infos = <<>>
              THEN [s EXCEPT !.cached_info = NULLP] ELSE s
    IN
    IF OSSL_STORE_eof(s, st.be)
    THEN {[st EXCEPT !.calls = calls1, !.v = NULLP]}
    ELSE IF s1.cached_info # NULLP
    THEN Deliver([st EXCEPT !.sess = [s1 EXCEPT !.cached_info =
                                                    InfoStack(Tail(s1.cached_info.infos))],
                            !.calls = calls1],
                 Head(s1.cached_info.infos), n)
    ELSE UNION { PullFrom([st EXCEPT !.sess = s1, !.calls = calls1], p, n) :
                 p \in PullsLeft(s1, n) }

\* OSSL_STORE_load(ctx): every result the backend's behaviour allows.
OSSL_STORE_load(s, b, pw, e) ==
    LET s1 == [s EXCEPT !.loading = TRUE]
    IN IF s.loader = NULLP THEN {Undefined(s1, b, pw, e)}
       ELSE { Result(st.sess, st.be, st.pw, st.v, e, st.calls) :
              st \in LoadFrom([sess |-> s1, be |-> b, pw |-> pw, calls |-> <<>>,
                               v |-> NULLP], MaxPulls) }

(***************************************************************************)
(* OSSL_STORE_close(ctx): ossl_store_close_it, then the session is freed.  *)
(* `status` is what the loader's close returns.  Result [sess, lctx,       *)
(* handles, ret, calls, ub].                                               *)
(***************************************************************************)
OSSL_STORE_close(s, l, h, status) ==
    IF s = NULLP
    THEN [sess |-> NULLP, lctx |-> l, handles |-> h, ret |-> 1, calls |-> <<>>,
          ub |-> FALSE]
    ELSE
    LET c == ossl_store_close_it([loader |-> s.loader,
                                  fetched_loader |-> s.fetched_loader,
                                  loader_ctx |-> s.loader_ctx,
                                  lctx |-> l, handles |-> h])
        cached == IF s.cached_info = NULLP THEN <<>> ELSE s.cached_info.infos
    IN IF c.ub
       THEN [sess |-> s, lctx |-> l, handles |-> h, ret |-> NULLP, calls |-> <<>>,
             ub |-> TRUE]
       ELSE [sess |-> NULLP, lctx |-> c.lctx, handles |-> c.handles, ret |-> status,
             calls |-> <<Call(IF s.fetched_loader # 0 THEN "p_close" ELSE "close", NULLP)>>
                       \o [i \in 1..Len(cached) |-> Call("OSSL_STORE_INFO_free", cached[i])]
                       \o (IF s.fetched_loader # 0
                           THEN <<Call("OSSL_STORE_LOADER_free", NULLP)>> ELSE <<>>)
                       \o <<Call("OPENSSL_free", NULLP)>>,
             ub |-> FALSE]

(***************************************************************************)
(* A session's life: the caller opens or attaches, sets the expected type  *)
(* and a search criterion, loads, and closes.                              *)
(***************************************************************************)
\* How many calls one behaviour makes on sessions.
MaxSteps == 4

SessionURIs == {<<"x">>, <<"h", "t", "t", "p", ":", "x">>}

PostProcessHooks == {NULL, "skip_crl"}

\* The backend behind a loader context that was just opened.  optional: the
\* loader has the functions a registered loader may lack, expect and find;
\* error: a pull failed while the backend was not at its end, which is what
\* a registered loader's error function reports.
NewBackends ==
    [eof : {FALSE}, optional : BOOLEAN, error : {FALSE}, expect : {0},
     search : {NULLP}]

\* The criteria the caller searches by.
Searches == {OSSL_STORE_SEARCH_by_alias("bob", <<>>, TRUE).ret}

Snapshot ==
    [sess |-> sess, be |-> be, pwcache |-> pwcache, lctx |-> lctx,
     handles |-> handles, errq |-> errq, nloads |-> nloads,
     delivered |-> delivered]

\* A session call was made: what it was, and the state it was made in.
SessionCall(name, arg) ==
    /\ spre' = Snapshot
    /\ sop' = [name |-> name, arg |-> arg]
    /\ nsteps' = nsteps + 1

\* open or attach returned r; b is the backend behind a new loader context.
Opened(r, b) ==
    /\ sess' = r.sess /\ tried' = r.tried /\ lctx' = r.lctx
    /\ handles' = r.handles /\ errq' = r.errq /\ ub' = r.ub
    /\ (r.sess # NULLP /\ r.sess.fetched_loader # 0 => b.optional)
    /\ be' = IF Len(r.lctx) > Len(lctx) THEN b ELSE be
    /\ sret' = r.sess /\ scalls' = <<>>
    /\ pwcache' = FALSE /\ nloads' = 0 /\ delivered' = <<>>
    /\ nopen' = nopen + 1
    /\ UNCHANGED <<reg, uri, leaks, info>>
    /\ UNCHANGED cmpVars
    /\ UNCHANGED provVars

SessionOpen ==
    /\ nopen < MaxOpens /\ nsteps < MaxSteps /\ ~ub /\ sess = NULLP
    /\ \E propq \in {NULL, "provider=x"}, post_process \in PostProcessHooks,
          opens \in [1..2 -> BOOLEAN], setok \in BOOLEAN, f \in OpenFailPoints,
          b \in NewBackends :
         /\ (propq = NULL => setok /\ f # "strdup")
         /\ f # "pw_set_ui_method"
         /\ SessionCall("open", [propq |-> propq, setok |-> setok, f |-> f])
         /\ Opened(OSSL_STORE_open_with_libctx(uri, propq, NULL, post_process,
                                               opens, setok, f), b)

Attach ==
    /\ nopen < MaxOpens /\ nsteps < MaxSteps /\ ~ub /\ sess = NULLP
    /\ \E scheme \in {NULL, <<"h", "t", "t", "p">>}, propq \in {NULL, "provider=x"},
          post_process \in PostProcessHooks, attaches \in BOOLEAN,
          setok \in BOOLEAN, f \in AttachFailPoints, b \in NewBackends :
         /\ (propq = NULL => setok)
         /\ SessionCall("attach", [propq |-> propq, setok |-> setok, f |-> f])
         /\ Opened(OSSL_STORE_attach(scheme, propq, NULL, post_process,
                                     attaches, setok, f), b)

\* expect, find or load returned r.
Returned(r) ==
    /\ sess' = r.sess /\ be' = r.be /\ pwcache' = r.pw /\ sret' = r.ret
    /\ errq' = r.errq /\ scalls' = r.calls /\ ub' = r.ub
    /\ UNCHANGED <<reg, uri, tried, lctx, handles, nopen, leaks, info>>
    /\ UNCHANGED cmpVars
    /\ UNCHANGED provVars

Expect ==
    /\ nsteps < MaxSteps /\ ~ub /\ sess # NULLP
    /\ \E expected_type \in {0, OSSL_STORE_INFO_CERT},
          accepts \in BOOLEAN :
         /\ SessionCall("expect", [type |-> expected_type, accepts |-> accepts])
         /\ Returned(OSSL_STORE_expect(sess, be, pwcache, errq, expected_type, accepts))
    /\ UNCHANGED <<nloads, delivered>>

Find ==
    /\ nsteps < MaxSteps /\ ~ub /\ sess # NULLP
    /\ \E search \in Searches, bld \in BOOLEAN, accepts \in BOOLEAN :
         /\ (~bld => accepts)
         /\ SessionCall("find", [search |-> search, accepts |-> accepts])
         /\ Returned(OSSL_STORE_find(sess, be, pwcache, errq, search, bld, accepts))
    /\ UNCHANGED <<nloads, delivered>>

Load ==
    /\ nsteps < MaxSteps /\ ~ub /\ sess # NULLP
    /\ \E r \in OSSL_STORE_load(sess, be, pwcache, errq) :
         /\ SessionCall("load", NULLP)
         /\ Returned(r)
         /\ delivered' = IF ~r.ub /\ r.ret # NULLP THEN Append(delivered, r.ret)
                         ELSE delivered
    /\ nloads' = nloads + 1

Close ==
    /\ nsteps < MaxSteps /\ ~ub /\ sess # NULLP
    /\ \E status \in {0, 1} :
         LET r == OSSL_STORE_close(sess, lctx, handles, status)
         IN /\ SessionCall("close", NULLP)
            /\ sess' = r.sess /\ lctx' = r.lctx /\ handles' = r.handles
            /\ sret' = r.ret /\ scalls' = r.calls /\ ub' = r.ub
    /\ UNCHANGED <<reg, uri, tried, errq, nopen, be, pwcache, nloads, delivered,
                   leaks, info>>
    /\ UNCHANGED cmpVars
    /\ UNCHANGED provVars

SessionStart ==
    /\ reg \in [file : LoaderKinds, other : {"provided"}]
    /\ uri \in SessionURIs
    /\ tried = <<>> /\ sess = NULLP /\ lctx = <<>> /\ handles = <<>>
    /\ errq = <<>> /\ ub = FALSE /\ nopen = 0

InitSession == SessionStart /\ SessIdle /\ CmpIdle
NextSession == SessionOpen \/ Attach \/ Expect \/ Find \/ Load \/ Close
SpecSession == InitSession /\ [][NextSession]_vars

(***************************************************************************)
(* Sessions whose loaders are asked what they can search by.               *)
(***************************************************************************)
\* What a loader declares: no p_settable_ctx_params and no search type; the
\* subject and the issuer; every parameter; the serial and the alias.
LoaderCapabilities ==
    {[has_settable |-> FALSE, names |-> {}, finds |-> {}],
     [has_settable |-> TRUE, names |-> {"subject", "issuer"},
      finds |-> {OSSL_STORE_SEARCH_BY_NAME}],
     [has_settable |-> TRUE,
      names |-> {"subject", "issuer", "serial", "fingerprint", "alias"},
      finds |-> {OSSL_STORE_SEARCH_BY_NAME, OSSL_STORE_SEARCH_BY_ISSUER_SERIAL,
                 OSSL_STORE_SEARCH_BY_KEY_FINGERPRINT, OSSL_STORE_SEARCH_BY_ALIAS}],
     [has_settable |-> TRUE, names |-> {"serial", "alias"},
      finds |-> {OSSL_STORE_SEARCH_BY_ALIAS}]}

\* The search types asked about: the four there are, and one there is not.
SearchTypes ==
    {0, OSSL_STORE_SEARCH_BY_NAME, OSSL_STORE_SEARCH_BY_ISSUER_SERIAL,
     OSSL_STORE_SEARCH_BY_KEY_FINGERPRINT, OSSL_STORE_SEARCH_BY_ALIAS}

SupportsSearch ==
    /\ nsteps < MaxSteps /\ ~ub /\ sess # NULLP
    /\ \E search_type \in SearchTypes :
         /\ SessionCall("supports_search", [type |-> search_type])
         /\ Returned(OSSL_STORE_supports_search(sess, be, pwcache, errq,
                                                search_type, reg.caps))
    /\ UNCHANGED <<nloads, delivered>>

SearchStart ==
    /\ reg \in [file : LoaderKinds, other : {"provided"}, caps : LoaderCapabilities]
    /\ uri \in SessionURIs
    /\ tried = <<>> /\ sess = NULLP /\ lctx = <<>> /\ handles = <<>>
    /\ errq = <<>> /\ ub = FALSE /\ nopen = 0

InitSearch == SearchStart /\ SessIdle /\ CmpIdle
NextSearch == SessionOpen \/ Load \/ SupportsSearch
SpecSearch == InitSearch /\ [][NextSearch]_vars

(***************************************************************************)
(* Objects and search criteria on their own: the caller constructs them    *)
(* and reads them through the accessors.                                   *)
(***************************************************************************)
\* How many calls one behaviour makes on objects and criteria.
MaxObjectCalls == 3

\* An object call was made and returned r ([ret, errq]).
ObjectCall(name, arg, r) ==
    /\ nsteps < MaxObjectCalls
    /\ spre' = [errq |-> errq, leaks |-> leaks, info |-> info]
    /\ sop' = [name |-> name, arg |-> arg]
    /\ sret' = r.ret /\ errq' = r.errq
    /\ nsteps' = nsteps + 1
    /\ UNCHANGED <<reg, uri, tried, sess, lctx, handles, ub, nopen>>
    /\ UNCHANGED <<be, pwcache, scalls, nloads, delivered>>
    /\ UNCHANGED cmpVars
    /\ UNCHANGED provVars

NewFingerprintSearch ==
    \E digest \in Digests \cup {NULL}, bytes \in {"fpA", "fpB"}, len \in {0, 20, 32},
       ok \in BOOLEAN :
        LET r == OSSL_STORE_SEARCH_by_key_fingerprint(digest, bytes, len, errq, ok)
        IN /\ ObjectCall("by_key_fingerprint",
                         [digest |-> digest, bytes |-> bytes, len |-> len, ok |-> ok], r)
           /\ leaks' = leaks + r.leaks
           /\ UNCHANGED info

NewSearch ==
    \E kind \in {"by_name", "by_issuer_serial", "by_alias"}, ok \in BOOLEAN :
        LET r == CASE kind = "by_name" -> OSSL_STORE_SEARCH_by_name("CN=a", errq, ok)
                   [] kind = "by_issuer_serial" ->
                          OSSL_STORE_SEARCH_by_issuer_serial("CN=a", "1", errq, ok)
                   [] kind = "by_alias" -> OSSL_STORE_SEARCH_by_alias("bob", errq, ok)
        IN /\ ObjectCall(kind, [ok |-> ok], r)
           /\ leaks' = leaks + r.leaks
           /\ UNCHANGED info

NewInfo ==
    \E type \in InfoTypes, data \in {"a", "b"}, ok \in BOOLEAN :
        LET r == OSSL_STORE_INFO_new(type, data, errq, ok)
        IN /\ ObjectCall("new", [type |-> type, data |-> data, ok |-> ok], r)
           /\ info' = r.ret
           /\ UNCHANGED leaks

SetDescription ==
    /\ info # NULLP
    /\ LET r == OSSL_STORE_INFO_set0_NAME_description(info, "about a", errq)
       IN /\ ObjectCall("set0_NAME_description", NULLP, r)
          /\ info' = r.info
          /\ UNCHANGED leaks

GetInfo ==
    /\ info # NULLP
    /\ \E getter \in {"get0", "get1"}, type \in InfoTypes, ok \in BOOLEAN :
          /\ (getter = "get0" \/ type # OSSL_STORE_INFO_NAME) => ok
          /\ ObjectCall(getter, [type |-> type, ok |-> ok],
                        IF getter = "get0" THEN OSSL_STORE_INFO_get0(type, info, errq)
                        ELSE OSSL_STORE_INFO_get1(type, info, errq, ok))
    /\ UNCHANGED <<info, leaks>>

GetDescription ==
    /\ info # NULLP
    /\ \E getter \in {"get0_NAME_description", "get1_NAME_description"}, ok \in BOOLEAN :
          /\ getter = "get0_NAME_description" => ok
          /\ ObjectCall(getter, [ok |-> ok],
                        IF getter = "get0_NAME_description"
                        THEN OSSL_STORE_INFO_get0_NAME_description(info, errq)
                        ELSE OSSL_STORE_INFO_get1_NAME_description(info, errq, ok))
    /\ UNCHANGED <<info, leaks>>

GetType ==
    /\ info # NULLP
    /\ ObjectCall("get_type", NULLP,
                  [ret |-> OSSL_STORE_INFO_get_type(info), errq |-> errq])
    /\ UNCHANGED <<info, leaks>>

InitObjects == StoreIdle /\ CmpIdle
NextObjects ==
    \/ NewFingerprintSearch \/ NewSearch \/ NewInfo \/ SetDescription
    \/ GetInfo \/ GetDescription \/ GetType
SpecObjects == InitObjects /\ [][NextObjects]_vars

(***************************************************************************)
(* The MAC signature contexts (PROV_MAC_CTX).  The state m of the provider *)
(* is [ctxs, strs, macs, refs, ub]: ctxs the PROV_MAC_CTX blocks made so   *)
(* far, each [live, propq, key, macctx] with propq an index into strs and  *)
(* macctx an index into macs (0: NULL) and key a key of MacKeys or NULL;   *)
(* strs the property strings allocated by OPENSSL_strdup and macs the      *)
(* EVP_MAC_CTX allocated, each with the number of times it was freed; refs *)
(* the reference count of each key; ub: a block was freed twice.           *)
(***************************************************************************)
\* How many calls one behaviour makes on MAC signature contexts.
MaxMacCalls == 4

\* The property queries and digest names the caller passes.
PropQueries == {NULL, "provider=default"}
DigestNames == {NULL, "SHA256"}

\* OPENSSL_free / EVP_MAC_CTX_free of block p of the heap h: NULL is ignored.
FreeBlock(h, p) == IF p = 0 THEN h ELSE [h EXCEPT ![p].frees = @ + 1]

\* Freeing block p of h frees it a second time.
FreedAgain(h, p) == p # 0 /\ h[p].frees >= 1

\* mac_key_up_ref(key) and mac_key_free(key) on the reference counts.
mac_key_up_ref(refs, key) == [refs EXCEPT ![key] = @ + 1]
mac_key_free(refs, key) == IF key = NULL THEN refs ELSE [refs EXCEPT ![key] = @ - 1]

\* mac_freectx of the context block x: its propq, its macctx and its key
\* reference are released.
mac_freectx(m, x) ==
    [m EXCEPT !.strs = FreeBlock(@, x.propq),
              !.macs = FreeBlock(@, x.macctx),
              !.refs = mac_key_free(@, x.key),
              !.ub = @ \/ FreedAgain(m.strs, x.propq) \/ FreedAgain(m.macs, x.macctx)]

\* What a call on the contexts returns: the provider's state, and the value.
MacResult(m, r) == [m |-> m, ret |-> r]

(***************************************************************************)
(* mac_newctx(provctx, propq, macname); `fail` is the allocation that      *)
(* fails.  Returns the index of the new context in ctxs, 0 for NULL.  At   *)
(* err only the PROV_MAC_CTX block is freed.                               *)
(***************************************************************************)
mac_newctx(m, propq, fail) ==
    LET strs1 == IF propq # NULL THEN Append(m.strs, [val |-> propq, frees |-> 0])
                 ELSE m.strs
        macs1 == Append(m.macs, [key |-> NULL, md |-> NULL, inited |-> FALSE,
                                 frees |-> 0])
        x == [live |-> TRUE, propq |-> IF propq # NULL THEN Len(strs1) ELSE 0,
              key |-> NULL, macctx |-> Len(macs1)]
    IN IF fail = "zalloc" THEN MacResult(m, 0)
       ELSE IF propq # NULL /\ fail = "strdup" THEN MacResult(m, 0)
       ELSE IF fail \in {"fetch", "ctx_new"}
       THEN MacResult([m EXCEPT !.strs = strs1], 0)
       ELSE MacResult([m EXCEPT !.strs = strs1, !.macs = macs1,
                                !.ctxs = Append(@, x)],
                      Len(m.ctxs) + 1)

\* mac_digest_sign_init, had it kept the reference on the key it replaces.
mac_digest_sign_init_KeepingOldKey(m, c, mdname, vkey, fail) ==
    IF c = 0 \/ vkey = NULL \/ fail = "up_ref" THEN MacResult(m, 0)
    ELSE
    LET x == m.ctxs[c]
        m1 == [m EXCEPT !.refs = mac_key_up_ref(@, vkey), !.ctxs[c].key = vkey]
        m2 == [m1 EXCEPT !.macs[x.macctx].key = vkey,
                         !.macs[x.macctx].md = IF mdname # NULL THEN mdname ELSE @]
    IN IF fail = "set_params" THEN MacResult(m1, 0)
       ELSE IF fail = "init" THEN MacResult(m2, 0)
       ELSE MacResult([m2 EXCEPT !.macs[x.macctx].inited = TRUE], 1)

(***************************************************************************)
(* mac_digest_sign_init(vpmacctx, mdname, vkey); c is the index of the     *)
(* context, 0 for NULL.  The new key is referenced before the old one is   *)
(* released; the parameters are then set on the EVP_MAC_CTX, which is      *)
(* initialised.                                                            *)
(***************************************************************************)
mac_digest_sign_init(m, c, mdname, vkey, fail) ==
    IF c = 0 \/ vkey = NULL \/ fail = "up_ref" THEN MacResult(m, 0)
    ELSE
    LET x == m.ctxs[c]
        m1 == [m EXCEPT !.refs = mac_key_free(mac_key_up_ref(@, vkey), x.key),
                        !.ctxs[c].key = vkey]
        m2 == [m1 EXCEPT !.macs[x.macctx].key = vkey,
                         !.macs[x.macctx].md = IF mdname # NULL THEN mdname ELSE @]
    IN IF fail = "set_params" THEN MacResult(m1, 0)
       ELSE IF fail = "init" THEN MacResult(m2, 0)
       ELSE MacResult([m2 EXCEPT !.macs[x.macctx].inited = TRUE], 1)

(***************************************************************************)
(* mac_dupctx(vpmacctx): the new block is a copy of the source's, propq    *)
(* pointer included; it takes a reference of its own on the key and an     *)
(* EVP_MAC_CTX of its own.  At err the new block is freed by mac_freectx.  *)
(***************************************************************************)
mac_dupctx(m, src, fail) ==
    LET s == m.ctxs[src]
        dst0 == [s EXCEPT !.key = NULL, !.macctx = 0]
        m1 == IF s.key # NULL THEN [m EXCEPT !.refs = mac_key_up_ref(@, s.key)] ELSE m
        dst1 == [dst0 EXCEPT !.key = s.key]
        macs1 == Append(m1.macs, [m1.macs[s.macctx] EXCEPT !.frees = 0])
    IN IF fail = "zalloc" THEN MacResult(m, 0)
       ELSE IF s.key # NULL /\ fail = "up_ref" THEN MacResult(mac_freectx(m, dst0), 0)
       ELSE IF s.macctx = 0
       THEN MacResult([m1 EXCEPT !.ctxs = Append(@, dst1)], Len(m.ctxs) + 1)
       ELSE IF fail = "dup" THEN MacResult(mac_freectx(m1, dst1), 0)
       ELSE MacResult([m1 EXCEPT !.macs = macs1,
                                 !.ctxs = Append(@, [dst1 EXCEPT !.macctx = Len(macs1)])],
                      Len(m.ctxs) + 1)

\* The contexts the caller holds and has not freed.
LiveContexts(m) == { c \in 1..Len(m.ctxs) : m.ctxs[c].live }

\* What the provider's state was when the last call was entered.
MacSnapshot ==
    [ctxs |-> pmac.ctxs, strs |-> pmac.strs, macs |-> pmac.macs, refs |-> pmac.refs]

\* A call was made on the contexts, and returned r.
MacCall(name, arg, r) ==
    /\ pmac' = [ctxs |-> r.m.ctxs, strs |-> r.m.strs, macs |-> r.m.macs,
                refs |-> r.m.refs, ub |-> r.m.ub,
                op |-> [name |-> name, arg |-> arg], ret |-> r.ret,
                pre |-> MacSnapshot, n |-> pmac.n + 1]
    /\ UNCHANGED <<kt>>
    /\ UNCHANGED cmpVars
    /\ UNCHANGED <<reg, uri, tried, sess, lctx, handles, errq, ub, nopen>>
    /\ UNCHANGED sessVars

\* The caller makes contexts, initialises, duplicates and frees them until a
\* block is freed twice.
MacReady == pmac.n < MaxMacCalls /\ ~pmac.ub

NewCtx ==
    /\ MacReady
    /\ \E propq \in PropQueries,
          fail \in {"none", "zalloc", "strdup", "fetch", "ctx_new"} :
         MacCall("newctx", [propq |-> propq, fail |-> fail],
                 mac_newctx(pmac, propq, fail))

\* The caller initialises a context it holds, or passes NULL for it.
DigestSignInit ==
    /\ MacReady
    /\ \E c \in LiveContexts(pmac) \cup {0}, mdname \in DigestNames,
          vkey \in MacKeys \cup {NULL},
          fail \in {"none", "up_ref", "set_params", "init"} :
         MacCall("digest_sign_init",
                 [c |-> c, mdname |-> mdname, vkey |-> vkey, fail |-> fail],
                 mac_digest_sign_init(pmac, c, mdname, vkey, fail))

DupCtx ==
    /\ MacReady
    /\ \E src \in LiveContexts(pmac), fail \in {"none", "zalloc", "up_ref", "dup"} :
         MacCall("dupctx", [c |-> src, fail |-> fail], mac_dupctx(pmac, src, fail))

\* The caller frees a context it holds; the block itself is freed last.
FreeCtx ==
    /\ MacReady
    /\ \E c \in LiveContexts(pmac) :
         LET m1 == mac_freectx(pmac, pmac.ctxs[c])
         IN MacCall("freectx", [c |-> c],
                    MacResult([m1 EXCEPT !.ctxs[c].live = FALSE], 0))

InitMac == CmpIdle /\ StoreIdle
NextMac == NewCtx \/ DigestSignInit \/ DupCtx \/ FreeCtx
SpecMac == InitMac /\ [][NextMac]_vars

(***************************************************************************)
(* ktls_read_record (Linux, receive offload compiled in): one record is    *)
(* received from the kernel into the caller's buffer behind room for the   *)
(* record header, and the header is written in front of it.                *)
(***************************************************************************)
SSL3_RT_HEADER_LENGTH == 5
EVP_GCM_TLS_TAG_LEN == 16
TLS1_2_VERSION_MAJOR == 3
TLS1_2_VERSION_MINOR == 3
TLS_GET_RECORD_TYPE == "TLS_GET_RECORD_TYPE"
EINVAL == "EINVAL"

\* The buffer lengths the caller passes: none, less than header and tag
\* need, just enough, and enough for payloads beyond 16 bits.
BufferLengths == {0, 1, 5, 20, 21, 22, 26, 277, 278, 16405, 65556, 65557, 65600}

\* What recvmsg finds on the socket: `avail` bytes of decrypted payload, or
\* an error (avail -1, with its errno; "0": errno is not set); the control message of the record,
\* if the kernel attached one: its cmsg_type and the record type it carries.
PayloadSizes == {0, 1, 5, 255, 256, 257, 16384, 65535, 65536, 65579}
Sockets ==
    [avail : PayloadSizes, errno : {"0"}, cmsg_type : {NULL, TLS_GET_RECORD_TYPE, "other"},
     record_type : {22, 23}]
    \cup [avail : {-1}, errno : {"EAGAIN", "EBADMSG"}, cmsg_type : {NULL},
          record_type : {0}]

\* recvmsg(fd, &msg, 0) with one iovec of iov_len bytes: the bytes received,
\* at most iov_len, or -1.
recvmsg(sock, iov_len) ==
    IF sock.avail < 0 THEN -1
    ELSE IF sock.avail < iov_len THEN sock.avail ELSE iov_len

\* What a read leaves: the return value, errno, the five bytes at the start
\* of the buffer if they were written, whether recvmsg was called and with
\* what iov_len.
ReadResult(r, e, hdr, received, iov_len) ==
    [ret |-> r, errno |-> e, hdr |-> hdr, received |-> received, iov_len |-> iov_len]

\* ktls_read_record, had it written the length with the low byte first.
ktls_read_record_LowByteFirst(sock, length) ==
    LET prepend_length == SSL3_RT_HEADER_LENGTH
        iov_len == length - prepend_length - EVP_GCM_TLS_TAG_LEN
        r == recvmsg(sock, iov_len)
    IN IF length < prepend_length + EVP_GCM_TLS_TAG_LEN
       THEN ReadResult(-1, EINVAL, NULLP, FALSE, 0)
       ELSE IF r < 0 THEN ReadResult(r, sock.errno, NULLP, TRUE, iov_len)
       ELSE IF sock.cmsg_type = TLS_GET_RECORD_TYPE
       THEN ReadResult(r + prepend_length, "0",
                       <<sock.record_type, TLS1_2_VERSION_MAJOR, TLS1_2_VERSION_MINOR,
                         r % 256, (r \div 256) % 256>>,
                       TRUE, iov_len)
       ELSE ReadResult(r, "0", NULLP, TRUE, iov_len)

\* ktls_read_record(fd, data, length); sock is what is behind fd.
ktls_read_record(sock, length) ==
    LET prepend_length == SSL3_RT_HEADER_LENGTH
        iov_len == length - prepend_length - EVP_GCM_TLS_TAG_LEN
        r == recvmsg(sock, iov_len)
    IN IF length < prepend_length + EVP_GCM_TLS_TAG_LEN
       THEN ReadResult(-1, EINVAL, NULLP, FALSE, 0)
       ELSE IF r < 0 THEN ReadResult(r, sock.errno, NULLP, TRUE, iov_len)
       ELSE IF sock.cmsg_type = TLS_GET_RECORD_TYPE
       THEN ReadResult(r + prepend_length, "0",
                       <<sock.record_type, TLS1_2_VERSION_MAJOR, TLS1_2_VERSION_MINOR,
                         (r \div 256) % 256, r % 256>>,
                       TRUE, iov_len)
       ELSE ReadResult(r, "0", NULLP, TRUE, iov_len)

\* The caller has a socket and a buffer, and has not read yet.
KtlsStart ==
    kt \in [sock : Sockets, length : BufferLengths, called : {FALSE},
            out : {ReadResult(0, "0", NULLP, FALSE, 0)}]

ReadRecord ==
    /\ ~kt.called
    /\ kt' = [kt EXCEPT !.called = TRUE, !.out = ktls_read_record(kt.sock, kt.length)]
    /\ UNCHANGED pmac
    /\ UNCHANGED cmpVars
    /\ UNCHANGED <<reg, uri, tried, sess, lctx, handles, errq, ub, nopen>>
    /\ UNCHANGED sessVars

InitKtls == CmpIdle /\ StoreQuiet /\ SessQuiet /\ MacIdle /\ KtlsStart
NextKtls == ReadRecord
SpecKtls == InitKtls /\ [][NextKtls]_vars

(***************************************************************************)
(* Properties of message protection (SpecProtect).                         *)
(***************************************************************************)
HasCertAndKey == ctx.cert # NULL /\ ctx.pkey # NULL
NoCredentials == ctx.secretValue = NULL /\ ~HasCertAndKey
Raised(e) == InSeq(errs, e)
FailsMissingCredentials ==
    ret = 0 /\ Raised("CMP_R_MISSING_KEY_INPUT_FOR_CREATING_PROTECTION")

\* C1, as stated: for every context without a shared secret and without both
\* certificate and key, protect fails with the missing-credentials error.
C1_AsStated == (op = "protect" /\ NoCredentials) => FailsMissingCredentials

\* C1, amended: for every context without a shared secret and without both
\* certificate and key, and with unprotectedSend false, protect fails with the
\* missing-credentials error and never returns success.
C1_MissingCredentials ==
    (op = "protect" /\ NoCredentials /\ ~ctx.unprotectedSend)
        => FailsMissingCredentials

C1_Witness ==
    /\ op = "protect" /\ NoCredentials /\ ~ctx.unprotectedSend
    /\ ctx.cert = "certA" /\ ctx.pkey = NULL /\ FailsMissingCredentials

\* C2: with a shared secret and unprotectedSend false, protect takes the MAC
\* path whatever certificate and key the context holds: the algorithm it sets
\* is the PasswordBasedMAC one, the protection is the MAC under the shared
\* secret, and no key/certificate match check and no signature is made.
C2_MacPathTaken ==
    (op = "protect" /\ ctx.secretValue # NULL /\ ~ctx.unprotectedSend) =>
        /\ "set_pbmac_algor" \in calls
        /\ calls \cap {"X509_check_private_key", "set_sig_algor",
                       "ASN1_item_sign"} = {}
        /\ msg.protectionAlg # NULLP =>
               /\ msg.protectionAlg.oid = NID_id_PasswordBasedMAC
               /\ msg.protectionAlg.fresh
        /\ msg.protection # NULLP =>
               /\ msg.protection.bytes[1] = "mac"
               /\ msg.protection.bytes[3] = ctx.secretValue
        /\ ret = 1 => msg.protectionAlg # NULLP /\ msg.protection # NULLP

C2_Witness ==
    /\ op = "protect" /\ ctx.secretValue # NULL /\ ~ctx.unprotectedSend
    /\ HasCertAndKey /\ ~X509_check_private_key(ctx.cert, ctx.pkey)
    /\ ret = 1 /\ msg.protection # NULLP

\* Two protection values are structurally identical: same bytes, same flags.
SameProtection(p, q) ==
    IF p = NULLP \/ q = NULLP THEN p = q
    ELSE p.bytes = q.bytes /\ p.bitsLeft = q.bitsLeft

C4_OldProtectionRemoved ==
    op = "protect" =>
        /\ msg.protectionAlg = NULLP \/ msg.protectionAlg.fresh
        /\ msg.protection = NULLP \/ msg.protection.fresh

C4_Witness ==
    /\ op = "protect" /\ ret = 0 /\ ~Raised("CMP_R_MISSING_SENDER_IDENTIFICATION")
    /\ pre.msg.protectionAlg # NULLP /\ pre.msg.protection # NULLP
    /\ msg.protectionAlg # NULLP /\ msg.protection = NULLP

\* C5: with unprotectedSend set, protect succeeds for every context, leaves
\* protectionAlg and protection absent and changes nothing else of the message
\* (senderKID and extraCerts are as before the call).
C5_UnprotectedSend ==
    (op = "protect" /\ ctx.unprotectedSend) =>
        /\ ret = 1 /\ errs = <<>>
        /\ msg = [pre.msg EXCEPT !.protectionAlg = NULLP, !.protection = NULLP]

C5_Witness ==
    /\ op = "protect" /\ ctx.unprotectedSend /\ ret = 1
    /\ ctx.secretValue # NULL /\ ctx.referenceValue # NULL
    /\ pre.msg.senderKID = NULL /\ pre.msg.protection # NULLP
    /\ ctx.extraCertsOut # NULLP /\ pre.msg.extraCerts = NULLP

\* C6, as stated: on the shared-secret path a sender key id already present in
\* the header before the call is left unchanged.
C6_AsStated ==
    (op = "protect" /\ ctx.secretValue # NULL /\ ~ctx.unprotectedSend
        /\ pre.msg.senderKID # NULL)
        => msg.senderKID = pre.msg.senderKID

\* C6, amended: on the shared-secret path a successful protect sets the
\* header's senderKID to the context's reference value whenever the context has
\* one, replacing a sender key id already present; the senderKID the header had
\* is left unchanged only when the context has no reference value.
C6_SenderKIDFromReference ==
    (op = "protect" /\ ctx.secretValue # NULL /\ ~ctx.unprotectedSend) =>
        /\ ret = 1 => msg.senderKID = IF ctx.referenceValue # NULL
                                      THEN ctx.referenceValue
                                      ELSE pre.msg.senderKID
        /\ msg.senderKID \in {ctx.referenceValue, pre.msg.senderKID}

C6_Witness ==
    /\ op = "protect" /\ ctx.secretValue # NULL /\ ~ctx.unprotectedSend
    /\ ret = 1 /\ pre.msg.senderKID = "kid0" /\ msg.senderKID = "ref"

\* C7: when, after the protection is calculated and the extra certificates are
\* added, the sender is the NULL-DN and no senderKID is set, protect fails with
\* the missing-sender-identification error, and the protectionAlg, protection
\* and extraCerts it has just set stay on the message.
C7_MissingSenderIdentification ==
    op = "protect" =>
        /\ ("ossl_cmp_general_name_is_NULL_DN" \in calls
                /\ ossl_cmp_general_name_is_NULL_DN(msg.sender)
                /\ msg.senderKID = NULL)
             => (ret = 0 /\ Raised("CMP_R_MISSING_SENDER_IDENTIFICATION"))
        /\ Raised("CMP_R_MISSING_SENDER_IDENTIFICATION") =>
             /\ ret = 0
             /\ ossl_cmp_general_name_is_NULL_DN(msg.sender)
             /\ msg.senderKID = NULL
             /\ msg.protectionAlg # NULLP /\ msg.protectionAlg.fresh
             /\ msg.protection # NULLP /\ msg.protection.fresh
             /\ msg.extraCerts =
                    ossl_cmp_msg_add_extraCerts(ctx, pre.msg, "none").extraCerts

C7_Witness ==
    /\ op = "protect" /\ ret = 0 /\ Raised("CMP_R_MISSING_SENDER_IDENTIFICATION")
    /\ msg.protection # NULLP /\ msg.extraCerts # NULLP
    /\ pre.msg.extraCerts = NULLP

(***************************************************************************)
(* Properties of the extra-certificates assembler (SpecExtraCerts).        *)
(***************************************************************************)
NoDuplicates(s) == \A i, j \in 1..Len(s) : s[i] = s[j] => i = j
CertsOf(sk) == IF sk = NULLP THEN <<>> ELSE sk.certs

\* C8, as stated: after add_extraCerts succeeds the message's extraCerts never
\* holds the same certificate twice, for every context and initial list.
C8_AsStated ==
    (op = "add_extraCerts" /\ ret = 1) => NoDuplicates(CertsOf(msg.extraCerts))

\* C8, amended: after add_extraCerts succeeds the message's extraCerts never
\* holds the same certificate twice, for every context and every initial list
\* that itself holds no certificate twice (certificates already on the list are
\* not deduplicated).
C8_NoDuplicatesAdded ==
    (op = "add_extraCerts" /\ ret = 1
        /\ NoDuplicates(CertsOf(pre.msg.extraCerts)))
        => NoDuplicates(CertsOf(msg.extraCerts))

C8_Witness ==
    /\ op = "add_extraCerts" /\ ret = 1
    /\ ctx.extraCertsOut = Stack(<<"certB", "certB">>)
    /\ HasCertAndKey /\ ctx.untrusted_certs # NULLP
    /\ pre.msg.extraCerts = Stack(<<"certA">>)
    /\ msg.extraCerts = Stack(<<"certA", "certB">>)

HasColon(u) == InSeq(u, ":")
BeforeColon(u) == SubSeq(u, 1, (CHOOSE i \in 1..Len(u) :
                                   u[i] = ":" /\ ~InSeq(SubSeq(u, 1, i - 1), ":")) - 1)
AfterColon(u) == SubSeq(u, Len(BeforeColon(u)) + 2, Len(u))
Lowered(w) == [i \in 1..Len(w) |-> ToLower(w[i])]
IsBarePath(u) == ~HasColon(u)
IsFileUri(u) == HasColon(u) /\ Lowered(BeforeColon(u)) = FileScheme
HasAuthority(u) ==
    /\ HasColon(u) /\ Len(AfterColon(u)) >= 2
    /\ AfterColon(u)[1] = "/" /\ AfterColon(u)[2] = "/"

\* The schemes the claim names for each shape of uri.
SchemesOfShape(u) ==
    IF IsBarePath(u) \/ IsFileUri(u) THEN <<FileScheme>>
    ELSE IF HasAuthority(u) THEN <<BeforeColon(u)>>
    ELSE <<FileScheme, BeforeColon(u)>>

IsPrefix(a, b) == Len(a) <= Len(b) /\ SubSeq(b, 1, Len(a)) = a

\* C10: the schemes open tries follow from the shape of the uri: a bare path
\* tries only "file"; scheme://... with a scheme other than file tries only
\* that scheme; scheme:path without // tries "file" and then the scheme; a uri
\* whose scheme is "file" in any letter case tries only "file", once.  Open
\* goes through these schemes in order and stops early only at a scheme whose
\* loader gave a loader context.
C10_SchemesFollowShape ==
    nopen > 0 =>
        /\ tried # <<>>
        /\ IsPrefix(tried, SchemesOfShape(uri))
        /\ tried # SchemesOfShape(uri) =>
               /\ lctx # <<>>
               /\ lctx[Len(lctx)].scheme = tried[Len(tried)]

C10_Witness ==
    /\ nopen > 0
    /\ uri = <<"h", "t", "t", "p", ":", "/", "x">>
    /\ tried = <<FileScheme, <<"h", "t", "t", "p">>>>
    /\ sess # NULLP /\ sess.loader.scheme = <<"h", "t", "t", "p">>

(***************************************************************************)
(* Properties of sessions (SpecSession).                                   *)
(***************************************************************************)
\* The last session call was `name`, and it did not run into undefined
\* behaviour.
Did(name) == sop # NULLP /\ sop.name = name /\ ~ub

\* The last session call was an open or an attach.
DidOpen == sop # NULLP /\ sop.name \in {"open", "attach"}

\* C11: when a fetched loader produced a loader context and applying the
\* property query to it fails, the attempt is invalidated: no session is
\* returned that is built on that loader context.  The invalidated context is
\* the one p_close was called on, so every session open or attach returns
\* has a loader and a loader context that is still open.
C11_AsStated ==
    (DidOpen /\ sess # NULLP) =>
        /\ sess.loader # NULLP
        /\ lctx[sess.loader_ctx].open

\* C12: once OSSL_STORE_load was called on a session, whatever it returned,
\* every later OSSL_STORE_expect and OSSL_STORE_find returns 0 with
\* OSSL_STORE_R_LOADING_STARTED and leaves the expected type and the
\* backend's configuration as they were; before the first load neither
\* raises OSSL_STORE_R_LOADING_STARTED.
C12_FiltersFrozen ==
    (Did("expect") \/ Did("find")) =>
        /\ spre.nloads > 0 =>
               /\ sret = 0
               /\ errq = Append(spre.errq, "OSSL_STORE_R_LOADING_STARTED")
               /\ sess.expected_type = spre.sess.expected_type
               /\ be = spre.be
        /\ spre.nloads = 0 =>
               \/ errq = spre.errq
               \/ errq[Len(errq)] # "OSSL_STORE_R_LOADING_STARTED"

C12_Witness ==
    /\ Did("expect") /\ spre.nloads > 0 /\ spre.delivered # <<>>
    /\ sop.arg.type # sess.expected_type /\ sop.arg.accepts

\* C13: on a session that loading has brought to the backend's end, a further
\* OSSL_STORE_load returns NULL and does nothing else: it asks the loader for
\* its end only (no pull, no hook), and the session (cache, error flag,
\* expected type), the backend, the passphrase cache and the error queue are
\* as before.
C13_EndOfStreamIdempotent ==
    (Did("load") /\ spre.sess.loading /\ OSSL_STORE_eof(spre.sess, spre.be)) =>
        /\ sret = NULLP
        /\ scalls = <<EofCall(spre.sess)>>
        /\ sess = spre.sess
        /\ be = spre.be
        /\ pwcache = spre.pwcache
        /\ errq = spre.errq

C13_Witness ==
    /\ Did("load") /\ spre.sess.loading /\ OSSL_STORE_eof(spre.sess, spre.be)
    /\ spre.delivered # <<>> /\ spre.sess.cached_info # NULLP /\ spre.pwcache

\* The session is live and its loader is there.
Live == sop # NULLP /\ ~ub /\ sess # NULLP /\ sess.loader # NULLP

\* The session the last call was made on is still there.
Continued == Live /\ spre.sess # NULLP

\* C14 as stated: the session's error flag is true exactly when a pull has
\* failed while the backend was not at its end, whatever loader the session
\* has.
C14_AsStated == Live => (sess.error_flag <=> be.error)

\* C14: on a session with a fetched loader, ctx->error_flag is true exactly
\* when a pull has failed while the backend was not at its end: it is false
\* after pulls that all succeeded or failed at the end, once true it stays
\* true through every later call, and OSSL_STORE_error returns it.  On a
\* session with a registered loader ctx->error_flag is never set, and
\* OSSL_STORE_error returns what the loader's error function reports.
C14_StickyErrorFlag ==
    Live =>
        /\ sess.fetched_loader # 0 =>
               /\ sess.error_flag <=> be.error
               /\ OSSL_STORE_error(sess, be) = sess.error_flag
        /\ sess.fetched_loader = 0 =>
               /\ ~sess.error_flag
               /\ OSSL_STORE_error(sess, be) = be.error
        /\ (Continued /\ spre.sess.error_flag) => sess.error_flag

C14_Witness ==
    /\ Continued /\ sess.fetched_loader # 0
    /\ Did("load") /\ spre.sess.error_flag /\ sess.error_flag
    /\ OSSL_STORE_eof(sess, be) /\ sret = NULLP

\* The types OSSL_STORE_load lets through when `type` is expected.
Passes(type) == {type, OSSL_STORE_INFO_NAME, 0}

\* The positions in the last call's calls where an object was freed.
Frees == { i \in 1..Len(scalls) : scalls[i].fn = "OSSL_STORE_INFO_free" }

\* C15: with an expected type other than 0 on the session, an object that
\* OSSL_STORE_load returns has that type, the type OSSL_STORE_INFO_NAME or the
\* type 0; an object it frees has none of these, and after freeing it the
\* load goes on from the end-of-stream test.
C15_ExpectedTypeFilter ==
    (Did("load") /\ spre.sess.expected_type # 0) =>
        /\ sret # NULLP => sret.type \in Passes(spre.sess.expected_type)
        /\ \A i \in Frees :
               /\ scalls[i].v.type \notin Passes(spre.sess.expected_type)
               /\ i < Len(scalls) /\ scalls[i + 1] = EofCall(spre.sess)
               /\ sret # scalls[i].v

C15_Witness ==
    /\ Did("load") /\ spre.sess.expected_type = OSSL_STORE_INFO_CERT
    /\ Frees # {}
    /\ sret # NULLP /\ sret.type = OSSL_STORE_INFO_CERT

\* The objects in the cache when the last call was entered, and now.
InfosOf(s) == IF s.cached_info = NULLP THEN <<>> ELSE s.cached_info.infos
CachedBefore == InfosOf(spre.sess)
CachedAfter == InfosOf(sess)

\* The positions in the last call's calls where the backend was pulled.
Pulls == { i \in 1..Len(scalls) : scalls[i].fn \in {"p_load", "load"} }

\* How often the loop of the last load was entered before position i.
RoundsBefore(i) == Cardinality({ j \in 1..(i - 1) : scalls[j] = EofCall(spre.sess) })

\* A load made with objects in the cache took its objects from the front of
\* the cache: without a pull it returned the k-th cached object, for some k,
\* and left those after it in the cache, in order; with a pull, every cached
\* object was taken before the first pull.
CacheServedFirst ==
    /\ Pulls = {} =>
           \E k \in 1..Len(CachedBefore) :
               /\ sret = CachedBefore[k]
               /\ CachedAfter = SubSeq(CachedBefore, k + 1, Len(CachedBefore))
    /\ Pulls # {} =>
           \A i \in Pulls : RoundsBefore(i) >= Len(CachedBefore) + 1

OpenContexts == { i \in 1..Len(lctx) : lctx[i].open }

\* C17: whenever open or attach has obtained a loader context and cannot
\* complete the session, it closes the loader context before it returns
\* NULL: after a failed open or attach no loader context is open.
C17_AsStated ==
    (DidOpen /\ ~ub /\ sess = NULLP) => OpenContexts = {}

\* The calls the last call made on objects of the cache, in order.
FreedInfos ==
    LET RECURSIVE From(_)
        From(i) == IF i > Len(scalls) THEN <<>>
                   ELSE IF scalls[i].fn = "OSSL_STORE_INFO_free"
                   THEN <<scalls[i].v>> \o From(i + 1)
                   ELSE From(i + 1)
    IN From(1)

\* C18: OSSL_STORE_close closes the loader context through the session's
\* loader, frees every object left in the cache, frees the fetched loader and
\* returns what the loader's close returned; on the temporary session that
\* open closes on its error exit, as on every other session, it cleans up
\* without failing.
C18_AsStated ==
    (sop # NULLP /\ sop.name \in {"open", "close"}) =>
        /\ ~ub
        /\ sop.name = "close" =>
               /\ sess = NULLP
               /\ ~lctx[spre.sess.loader_ctx].open
               /\ lctx[spre.sess.loader_ctx].closes = 1
               /\ FreedInfos = InfosOf(spre.sess)
               /\ spre.sess.fetched_loader # 0 =>
                      handles[spre.sess.fetched_loader].frees = 1
               /\ sret \in {0, 1}

(***************************************************************************)
(* Properties of objects and search criteria (SpecObjects)                 *)
(***************************************************************************)
\* The last object call was `name`.
DidObject(name) == sop # NULLP /\ sop.name = name

\* The fingerprint criterion was asked for with a digest whose output size
\* is not the fingerprint's length.
SizeMismatch ==
    /\ DidObject("by_key_fingerprint")
    /\ sop.arg.digest # NULL
    /\ sop.arg.len # EVP_MD_size(sop.arg.digest)

\* C19, as stated: constructing a fingerprint criterion with a digest and a
\* fingerprint of another length than the digest's output fails with
\* FINGERPRINT_SIZE_DOES_NOT_MATCH_DIGEST, returns nothing and leaves nothing
\* allocated; with an equal length, or without a digest, it returns a
\* criterion carrying exactly the digest, the bytes and the length given.
C19_AsStated ==
    (DidObject("by_key_fingerprint") /\ sop.arg.ok) =>
        IF SizeMismatch
        THEN /\ sret = NULLP
             /\ errq = Append(spre.errq,
                              "OSSL_STORE_R_FINGERPRINT_SIZE_DOES_NOT_MATCH_DIGEST")
             /\ leaks = spre.leaks
        ELSE /\ sret = [search_type |-> OSSL_STORE_SEARCH_BY_KEY_FINGERPRINT,
                        name |-> NULL, serial |-> NULL,
                        digest |-> sop.arg.digest, string |-> sop.arg.bytes,
                        stringlength |-> sop.arg.len]
             /\ errq = spre.errq
             /\ leaks = spre.leaks

\* The last object call was the accessor `getter` of a type other than the
\* object's.
WrongVariant(getter) == DidObject(getter) /\ sop.arg.type # info.type

\* What OSSL_STORE_INFO_get_type and an accessor of type t say of the object
\* just constructed from (type, data).
TagAndValue(type, data) ==
    /\ OSSL_STORE_INFO_get_type(info) = type
    /\ \A t \in InfoTypes :
          OSSL_STORE_INFO_get0(t, info, errq).ret = IF t = type THEN data ELSE NULL

\* C20, as stated: an accessor of another variant than the object's yields no
\* value and raises the wrong-type error; the accessor of the object's own
\* variant yields exactly the value the object was constructed with, and the
\* type tag is the constructing variant.
C20_AsStated ==
    /\ (DidObject("new") /\ sop.arg.ok) => TagAndValue(sop.arg.type, sop.arg.data)
    /\ DidObject("get_type") => sret = info.type
    /\ (DidObject("get0") \/ (DidObject("get1") /\ sop.arg.ok)) =>
           IF sop.arg.type # info.type
           THEN sret = NULL /\ errq = Append(spre.errq, NotA(sop.arg.type))
           ELSE sret = info.data /\ errq = spre.errq

\* C20, amended: a get1 accessor of another variant than the object's yields
\* no value and raises the NOT_A_ error of its variant; a get0 accessor of
\* another variant yields no value and raises nothing; the accessor of the
\* object's own variant yields exactly the value the object was constructed
\* with (get1_NAME unless its copy cannot be allocated: then nothing and
\* ERR_R_MALLOC_FAILURE); the type tag is the constructing variant; no
\* accessor changes the object.
C20_TypedAccessors ==
    /\ (DidObject("new") /\ sop.arg.ok) => TagAndValue(sop.arg.type, sop.arg.data)
    /\ DidObject("get_type") => sret = info.type /\ errq = spre.errq
    /\ DidObject("get0") =>
           /\ errq = spre.errq
           /\ sret = IF sop.arg.type = info.type THEN info.data ELSE NULL
    /\ DidObject("get1") =>
           IF sop.arg.type # info.type
           THEN sret = NULL /\ errq = Append(spre.errq, NotA(sop.arg.type))
           ELSE IF sop.arg.ok
           THEN sret = info.data /\ errq = spre.errq
           ELSE sret = NULL /\ errq = Append(spre.errq, "ERR_R_MALLOC_FAILURE")
    /\ (sop # NULLP /\ sop.name \in {"get0", "get1", "get_type"}) => info = spre.info

\* A get0 accessor was applied to an object of another variant, constructed
\* with a value.
C20_Witness ==
    /\ WrongVariant("get0")
    /\ info.data = "b"
    /\ sret = NULL

(***************************************************************************)
(* Properties of the protection engine (SpecCalc)                          *)
(***************************************************************************)
\* The protection was computed for a message whose protectionAlg is
\* PasswordBasedMac.
SharedSecretPath ==
    /\ op = "calc_protection"
    /\ msg.protectionAlg # NULLP
    /\ msg.protectionAlg.oid = NID_id_PasswordBasedMAC

\* The call returned no protection and raised the error e.
FailedWith(e) == sret = NULLP /\ InSeq(errs, e)

\* C21, as stated: on the shared-secret path the call fails with
\* UNKNOWN_ALGORITHM_ID if the protectionAlg carries no parameters and with
\* MISSING_PBM_SECRET if the context has no secretValue; no protection is
\* returned in either case.
C21_AsStated ==
    SharedSecretPath =>
        /\ msg.protectionAlg.pval = NULLP => FailedWith("CMP_R_UNKNOWN_ALGORITHM_ID")
        /\ ctx.secretValue = NULL => FailedWith("CMP_R_MISSING_PBM_SECRET")

\* C21, amended: on the shared-secret path the call fails with
\* MISSING_PBM_SECRET alone if the context has no secretValue, whatever the
\* parameters; with a secretValue it fails with ERROR_CALCULATING_PROTECTION
\* alone if the protectionAlg carries no parameters and with
\* WRONG_ALGORITHM_OID alone if they do not decode; no protection is returned
\* in any of these cases, and UNKNOWN_ALGORITHM_ID is never raised on this path.
C21_MacPathFailures ==
    SharedSecretPath =>
        /\ ctx.secretValue = NULL =>
               sret = NULLP /\ errs = <<"CMP_R_MISSING_PBM_SECRET">>
        /\ (ctx.secretValue # NULL /\ msg.protectionAlg.pval = NULLP) =>
               sret = NULLP /\ errs = <<"CMP_R_ERROR_CALCULATING_PROTECTION">>
        /\ (ctx.secretValue # NULL /\ msg.protectionAlg.pval = Undecodable) =>
               sret = NULLP /\ errs = <<"CMP_R_WRONG_ALGORITHM_OID">>
        /\ ~InSeq(errs, "CMP_R_UNKNOWN_ALGORITHM_ID")

\* The protection was asked for with neither parameters nor secretValue.
C21_Witness ==
    /\ SharedSecretPath
    /\ msg.protectionAlg.pval = NULLP
    /\ ctx.secretValue = NULL
    /\ sret = NULLP

\* The protection was computed for a message whose protectionAlg is anything
\* but PasswordBasedMac.
AsymmetricPath ==
    /\ op = "calc_protection"
    /\ msg.protectionAlg # NULLP
    /\ msg.protectionAlg.oid # NID_id_PasswordBasedMAC

\* The signature identifiers a digest belongs to.
SigAlgsWithDigest == {"sha256WithRSAEncryption", "ecdsa-with-SHA256"}

\* C22: on the asymmetric path the call fails with
\* MISSING_KEY_INPUT_FOR_CREATING_PROTECTION if the context has no private
\* key, whether or not a digest belongs to the identifier; with a key it fails
\* with UNKNOWN_ALGORITHM_ID if no digest belongs to the identifier; else the
\* protection is the signature of (header, body) with the key and that
\* digest.  The context's secretValue has no part in any of it.
C22_AsymmetricPath ==
    AsymmetricPath =>
        IF ctx.pkey = NULL
        THEN sret = NULLP
             /\ errs = <<"CMP_R_MISSING_KEY_INPUT_FOR_CREATING_PROTECTION">>
        ELSE IF msg.protectionAlg.oid \notin SigAlgsWithDigest
        THEN sret = NULLP /\ errs = <<"CMP_R_UNKNOWN_ALGORITHM_ID">>
        ELSE IF sop.arg.fail
        THEN sret = NULLP
        ELSE /\ sret # NULLP
             /\ sret.bytes = ASN1_item_sign(ctx.pkey, "sha256", ProtectedPart(msg))
             /\ errs = <<>>

\* The protection was asked for under an identifier without digest by a
\* context that has a secretValue and no private key.
C22_Witness ==
    /\ AsymmetricPath
    /\ ctx.pkey = NULL
    /\ ctx.secretValue # NULL
    /\ msg.protectionAlg.oid \notin SigAlgsWithDigest
    /\ errs = <<"CMP_R_MISSING_KEY_INPUT_FOR_CREATING_PROTECTION">>

(***************************************************************************)
(* Further properties of message protection (SpecProtect)                  *)
(***************************************************************************)
\* protect was called and took the signature branch: no secretValue, cert
\* and key both there, protection wanted.
SignaturePathTaken ==
    /\ op = "protect"
    /\ ~ctx.unprotectedSend
    /\ ctx.secretValue = NULL
    /\ ctx.cert # NULL /\ ctx.pkey # NULL

\* C23: on the signature path, if the private key is not the key of the
\* certificate, protect fails with CERT_AND_KEY_DO_NOT_MATCH, and it does so
\* before anything is set on the message: the message has no protectionAlg
\* and no protection, its senderKID and its extraCerts are those it had, and
\* none of the functions that set them was called.
C23_KeyCertMismatch ==
    (SignaturePathTaken /\ PubKeyOf(ctx.cert) # ctx.pkey) =>
        /\ ret = 0
        /\ InSeq(errs, "CMP_R_CERT_AND_KEY_DO_NOT_MATCH")
        /\ msg.protectionAlg = NULLP
        /\ msg.protection = NULLP
        /\ msg.senderKID = pre.msg.senderKID
        /\ msg.extraCerts = pre.msg.extraCerts
        /\ calls \cap {"set_sig_algor", "set_senderKID", "ossl_cmp_calc_protection",
                       "ossl_cmp_msg_add_extraCerts"} = {}

\* protect was refused for a key that is not the certificate's, on a message
\* that came with a protection and a senderKID.
C23_Witness ==
    /\ SignaturePathTaken
    /\ PubKeyOf(ctx.cert) # ctx.pkey
    /\ pre.msg.protectionAlg # NULLP
    /\ pre.msg.senderKID # NULL
    /\ ret = 0

\* C24, as stated: on the signature path, after a successful protect the
\* header's senderKID is the subject key identifier of the certificate.
C24_AsStated ==
    (SignaturePathTaken /\ ret = 1) =>
        msg.senderKID = X509_get0_subject_key_id(ctx.cert)

\* C24, amended: on the signature path, after a successful protect the
\* header's senderKID is the subject key identifier of the certificate if the
\* certificate has one; if it has none, the senderKID is the context's
\* referenceValue if there is one, and otherwise the senderKID the header
\* carried before.
C24_SenderKIDFromCertificate ==
    (SignaturePathTaken /\ ret = 1) =>
        msg.senderKID =
            IF X509_get0_subject_key_id(ctx.cert) # NULL
            THEN X509_get0_subject_key_id(ctx.cert)
            ELSE IF ctx.referenceValue # NULL THEN ctx.referenceValue
            ELSE pre.msg.senderKID

\* protect succeeded on the signature path with a certificate that has a
\* subject key identifier, on a message that carried another senderKID.
C24_Witness ==
    /\ SignaturePathTaken /\ ret = 1
    /\ X509_get0_subject_key_id(ctx.cert) # NULL
    /\ pre.msg.senderKID \notin {NULL, X509_get0_subject_key_id(ctx.cert)}
    /\ msg.senderKID = X509_get0_subject_key_id(ctx.cert)

(***************************************************************************)
(* Further properties of the extra-certificates assembler (SpecExtraCerts) *)
(***************************************************************************)
\* add_extraCerts succeeded for a context that has cert and key.
AddedWithOwnCert ==
    /\ op = "add_extraCerts" /\ ret = 1
    /\ ctx.cert # NULL /\ ctx.pkey # NULL

OpenedAfterFileFailed ==
    /\ nopen > 0 /\ sess # NULLP
    /\ Len(tried) = 2 /\ tried[1] = FileScheme

\* C26: when a later scheme opens the uri after the "file" scheme failed to,
\* the error queue is after the call exactly what it was before the call:
\* nothing the failed attempt raised is left on it.
C26_NoErrorLeftBehind == OpenedAfterFileFailed => errq = spre.errq

\* A session was opened by the second scheme after the registered "file"
\* loader failed to open the uri (which raises an error), with an error
\* already queued before the call.
C26_Witness ==
    /\ OpenedAfterFileFailed
    /\ reg.file = "registered"
    /\ spre.errq = <<"earlier error">>
    /\ errq = <<"earlier error">>

\* The loader context the last open created, 0 if it created none.
NewContext == IF Len(lctx) > Len(spre.lctx) THEN Len(lctx) ELSE 0

\* C27, as stated: for each candidate scheme in order, open uses the
\* registered loader if there is one and fetches a loader only when none is
\* registered for the scheme; it stops at the first candidate that yields a
\* loader context and tries none after it; the loader of the session it
\* returns is the one that produced the session's loader context.
C27_AsStated ==
    nopen > 0 =>
        \* loaders are fetched for schemes without a registered loader only
        /\ \A h \in (Len(spre.handles) + 1)..Len(handles) :
               LoaderKind(handles[h].scheme) # "registered"
        \* a registered loader is tried where there is one
        /\ \A i \in 1..Len(tried) :
               LoaderKind(tried[i]) = "registered" =>
                   \/ i < Len(tried)
                   \/ NewContext = 0
                   \/ lctx[NewContext].kind = "registered"
        \* at most one loader context, made by the last scheme tried
        /\ Len(lctx) <= Len(spre.lctx) + 1
        /\ NewContext # 0 => lctx[NewContext].scheme = tried[Len(tried)]
        \* the session's loader made its loader context
        /\ sess # NULLP =>
               /\ sess.loader_ctx = NewContext
               /\ sess.loader # NULLP
               /\ sess.loader.scheme = lctx[NewContext].scheme
               /\ sess.loader.kind = lctx[NewContext].kind

(***************************************************************************)
(* Properties of the search capabilities (SpecSearch)                      *)
(***************************************************************************)
\* The parameters a fetched loader must accept for a search of the type.
ParamsNeeded(type) ==
    CASE type = OSSL_STORE_SEARCH_BY_NAME -> {"subject"}
      [] type = OSSL_STORE_SEARCH_BY_ISSUER_SERIAL -> {"issuer", "serial"}
      [] type = OSSL_STORE_SEARCH_BY_KEY_FINGERPRINT -> {"fingerprint"}
      [] type = OSSL_STORE_SEARCH_BY_ALIAS -> {"alias"}

\* C28: supports_search answers from what the loader declares and changes
\* nothing of the session: the loading flag, the expected type, the error
\* flag, the cache, the backend, the passphrase cache and the error queue
\* are what they were; the answer depends on the loader's declaration and
\* the search type alone, so it is the same before and after loading began.
\* A fetched loader supports by-name with the subject parameter,
\* by-issuer-and-serial with both the issuer and the serial parameter,
\* by-fingerprint with the fingerprint parameter, by-alias with the alias
\* parameter, and nothing without p_settable_ctx_params.
C28_SupportsSearchPure ==
    Did("supports_search") =>
        /\ Snapshot = spre
        /\ sess.fetched_loader # 0 =>
               sret = IF /\ reg.caps.has_settable
                         /\ sop.arg.type \in 1..4
                         /\ ParamsNeeded(sop.arg.type) \subseteq reg.caps.names
                      THEN 1 ELSE 0
        /\ sess.fetched_loader = 0 =>
               sret = IF be.optional /\ sop.arg.type \in reg.caps.finds
                      THEN 1 ELSE 0

\* A fetched loader that accepts issuer and serial was asked, after loading
\* began, whether it searches by issuer and serial.
C28_Witness ==
    /\ Did("supports_search")
    /\ sess.loading /\ nloads > 0
    /\ sess.fetched_loader # 0
    /\ sop.arg.type = OSSL_STORE_SEARCH_BY_ISSUER_SERIAL
    /\ sret = 1

(***************************************************************************)
(* Further properties of sessions (SpecSession)                            *)
(***************************************************************************)
\* The positions in the last call's calls where the hook was given an object.
Hooked == { i \in 1..Len(scalls) : scalls[i].fn = "post_process" }

\* The hook of the sessions ignores the CRLs.
Ignored(v) == v.type = OSSL_STORE_INFO_CRL

\* The expected type of the session lets the object through.
Accepted(v) ==
    \/ spre.sess.expected_type = 0
    \/ v.type \in Passes(spre.sess.expected_type)

\* C29: when the hook ignores an object, OSSL_STORE_load goes on from the
\* end-of-stream test instead of returning; the hook is given every object
\* before the expected type is tested; the object returned is the first one,
\* after those ignored or freed, that the hook keeps and the expected type
\* lets through.
C29_HookDiscardRetries ==
    (Did("load") /\ spre.sess.post_process # NULL) =>
        /\ \A i \in Hooked :
               LET v == scalls[i].v
               IN /\ i < Len(scalls)
                  /\ IF Ignored(v)
                     THEN scalls[i + 1] = EofCall(spre.sess) /\ sret # v
                     ELSE IF ~Accepted(v)
                     THEN scalls[i + 1] = Call("OSSL_STORE_INFO_free", v)
                     ELSE /\ i + 1 = Len(scalls)
                          /\ scalls[i + 1].fn = "ossl_pw_clear_passphrase_cache"
                          /\ sret = v
        /\ \A j \in Frees :
               j > 1 /\ scalls[j - 1] = Call("post_process", scalls[j].v)
        /\ sret # NULLP =>
               /\ Len(scalls) >= 2
               /\ scalls[Len(scalls) - 1] = Call("post_process", sret)

\* The hook ignored a CRL, and the load returned the certificate that came
\* after it.
C29_Witness ==
    /\ Did("load") /\ spre.sess.post_process # NULL
    /\ \E i \in Hooked : scalls[i].v = Crl
    /\ sret = Cert

\* The positions in the last call's calls where a fetched loader was pulled.
FetchedPullsMade == { i \in Pulls : scalls[i].fn = "p_load" }

\* The last call ended by clearing the passphrase cache.
ClearedLast ==
    /\ scalls # <<>>
    /\ scalls[Len(scalls)].fn = "ossl_pw_clear_passphrase_cache"

\* C30, as stated: a load that returns an object has cleared the passphrase
\* cache before it returns, and no passphrase cached while one object was
\* produced is in the cache when a later object is pulled.
C30_AsStated ==
    Did("load") =>
        /\ sret # NULLP => (~pwcache /\ ClearedLast)
        /\ \A i \in FetchedPullsMade :
               (\E j \in FetchedPullsMade : j < i) => ~scalls[i].v.cached

\* C30, amended: a load that returns an object has cleared the passphrase
\* cache before it returns, so the next call finds it empty.  The cache is
\* cleared nowhere else: the first pull of a call finds the cache as the
\* call did, a later pull of the same call (after an object was ignored by
\* the hook or freed for its type) finds what the call found and the earlier
\* pulls cached, and a load that returns at the end-of-stream test or on a
\* failing p_load leaves in the cache what it found there.
C30_CacheClearedOnReturn ==
    Did("load") =>
        /\ sret # NULLP => (~pwcache /\ ClearedLast)
        /\ \A i \in FetchedPullsMade :
               /\ (\A j \in FetchedPullsMade : j >= i) =>
                      scalls[i].v.cached = spre.pwcache
               /\ spre.pwcache => scalls[i].v.cached
        /\ ~ClearedLast => (sret = NULLP /\ (spre.pwcache => pwcache))
        /\ ClearedLast => ~pwcache

\* A load pulled an object with a passphrase, freed it for its type, pulled
\* again with the passphrase still cached, and returned that object with the
\* cache cleared.
C30_Witness ==
    /\ Did("load") /\ ~spre.pwcache
    /\ Frees # {}
    /\ \E i \in FetchedPullsMade : scalls[i].v.cached
    /\ sret # NULLP /\ ~pwcache

\* C31, as stated: over any sequence of open, attach, expect, find, load and
\* close, no loader context is closed twice, a loader context is open exactly
\* as long as a session owns it, no loader function is called through an
\* absent loader or on a closed context, and every session open or attach
\* returns has a loader and an open loader context.
C31_AsStated ==
    /\ ~ub
    /\ \A i \in 1..Len(lctx) : lctx[i].closes <= 1
    /\ \A i \in 1..Len(lctx) : lctx[i].open <=> lctx[i].closes = 0
    /\ sess # NULLP =>
           /\ sess.loader # NULLP
           /\ lctx[sess.loader_ctx].open
    /\ \A i \in 1..Len(lctx) :
           lctx[i].open => (sess # NULLP /\ sess.loader_ctx = i)

\* C32, as stated: a fetched loader is freed exactly once on every path: it
\* is unfreed exactly while a session holds it, close frees it once, and an
\* open that fails after the fetched loader opened a loader context frees it
\* once, never twice.
C32_AsStated ==
    ~ub =>
        \A h \in 1..Len(handles) :
            /\ handles[h].frees <= 1
            /\ handles[h].frees = 0 <=> (sess # NULLP /\ sess.fetched_loader = h)

\* C33, as stated: when OSSL_STORE_expect returns 0, because loading has
\* begun or because the loader refuses the type, the expected type that
\* OSSL_STORE_load filters by is what it was before the call.
C33_AsStated ==
    (Did("expect") /\ sret = 0) => sess.expected_type = spre.sess.expected_type

\* C34, as stated: no object in the cache is lost: OSSL_STORE_load does not
\* return NULL at the end-of-stream test while the cache holds objects, and
\* every cached object is returned by a load, ignored by the hook, freed for
\* its type, or freed by close.
C34_AsStated ==
    /\ (Did("load") /\ sret = NULLP /\ OSSL_STORE_eof(sess, be)) => CachedAfter = <<>>
    /\ Did("close") => FreedInfos = InfosOf(spre.sess)

\* The positions in the last call's calls where the loop of OSSL_STORE_load
\* was entered: the end-of-stream tests that do not follow a pull.
LoopHeads ==
    { i \in 1..Len(scalls) :
        /\ scalls[i] = EofCall(spre.sess)
        /\ i \notin { j + 1 : j \in Pulls } }

\* How often the last load went back to the label `again`.
Retries == Cardinality(LoopHeads) - 1

\* The positions where an object was given up: ignored by the hook, or freed
\* for its type.
Discards == { i \in Hooked : Ignored(scalls[i].v) } \cup Frees

\* The rounds that took their object from the cache.
CachePops ==
    { i \in LoopHeads : i < Len(scalls) /\ (i + 1) \notin Pulls }

\* The most objects one pull finds.
MostFound == CHOOSE n \in 0..8 : /\ \A p \in FetchedPulls : Len(p.vs) <= n
                                 /\ \E p \in FetchedPulls : Len(p.vs) = n

\* C35: OSSL_STORE_load returns after finitely many rounds: it goes back to
\* `again` once for each object the hook ignores or the expected type
\* rejects, each of these objects was taken from the cache or pulled from
\* the backend in its round, and with a backend at its end after MaxPulls
\* pulls the rounds are bounded by what the cache held and the pulls found.
C35_LoadTerminates ==
    Did("load") =>
        /\ Retries = Cardinality(Discards)
        /\ \A i \in LoopHeads :
               \/ i = Len(scalls) /\ sret = NULLP
               \/ i \in CachePops
               \/ (i + 1) \in Pulls
        /\ Cardinality(Discards) + (IF sret # NULLP THEN 1 ELSE 0)
               <= Cardinality(CachePops) + Cardinality(Pulls)
        /\ Cardinality(Pulls) <= MaxPulls
        /\ Cardinality(CachePops) + Len(CachedAfter)
               <= Len(CachedBefore) + (MostFound - 1) * Cardinality(Pulls)
        /\ Retries <= Len(CachedBefore) + MostFound * MaxPulls

\* A load went back twice, once for an object the hook ignored and once for
\* one of another type than expected, taking one from the backend and one
\* from the cache, and then returned.
C35_Witness ==
    /\ Did("load")
    /\ Retries >= 2
    /\ \E i \in Discards : i \in Frees
    /\ \E i \in Discards : i \notin Frees
    /\ CachePops # {} /\ Pulls # {}

(***************************************************************************)
(* Further properties of message protection (SpecProtect)                  *)
(***************************************************************************)
\* C36: after ossl_cmp_msg_protect returned 1 for a context that does not
\* ask for unprotected sending, the message has a protectionAlg and a
\* protection, the algorithm is PasswordBasedMac exactly when the context
\* has a secretValue, and the sender is not the NULL-DN or a senderKID is set.
C36_ProtectedAndIdentified ==
    (op = "protect" /\ ret = 1 /\ ~ctx.unprotectedSend) =>
        /\ msg.protectionAlg # NULLP
        /\ msg.protection # NULLP
        /\ msg.protectionAlg.oid = NID_id_PasswordBasedMAC <=> ctx.secretValue # NULL
        /\ ~ossl_cmp_general_name_is_NULL_DN(msg.sender) \/ msg.senderKID # NULL

\* A context with a secretValue and with cert and key protected a message
\* whose sender is the NULL-DN.
C36_Witness ==
    /\ op = "protect" /\ ret = 1 /\ ~ctx.unprotectedSend
    /\ ctx.secretValue # NULL /\ HasCertAndKey
    /\ ossl_cmp_general_name_is_NULL_DN(msg.sender)
    /\ msg.protectionAlg.oid = NID_id_PasswordBasedMAC

\* The list s occurs in the list t as it is, in one piece.
OccursIn(s, t) ==
    \E i \in 0..(Len(t) - Len(s)) : \A j \in 1..Len(s) : t[i + j] = s[j]

\* The last two calls were protections of the message, and both returned 1.
ProtectedTwice ==
    /\ op = "protect" /\ ret = 1
    /\ pre.op = "protect" /\ pre.ret = 1

\* C37: a second successful ossl_cmp_msg_protect of the message with the
\* same context leaves its extraCerts as the first left them, the same
\* certificates in the same order; and no protect call, successful or not,
\* removes a certificate the message carried: the list it carried is still
\* there in one piece.
C37_ReprotectKeepsExtraCerts ==
    /\ ProtectedTwice => msg.extraCerts = pre.msg.extraCerts
    /\ op = "protect" => OccursIn(CertsOf(pre.msg.extraCerts), CertsOf(msg.extraCerts))

\* The message was protected twice by a context that adds its own
\* certificate and its extraCertsOut, and carries several certificates.
C37_Witness ==
    /\ ProtectedTwice /\ ~ctx.unprotectedSend
    /\ HasCertAndKey /\ ctx.extraCertsOut # NULLP
    /\ Len(CertsOf(msg.extraCerts)) >= 2
    /\ InSeq(CertsOf(msg.extraCerts), ctx.cert)

(***************************************************************************)
(* Properties of the MAC signature contexts (SpecMac)                      *)
(***************************************************************************)
\* The last call on the contexts was `name`.
DidMac(name) == pmac.op # NULLP /\ pmac.op.name = name

\* C38, as stated: a context made by mac_dupctx shares neither property
\* string nor EVP_MAC_CTX with its source, so that freeing both, in either
\* order, frees each block once and drops each key reference once; and a
\* mac_dupctx that returns NULL leaves the source, and what it owns, as it was.
C38_AsStated ==
    /\ ~pmac.ub
    /\ \A p \in 1..Len(pmac.strs) : pmac.strs[p].frees <= 1
    /\ \A p \in 1..Len(pmac.macs) : pmac.macs[p].frees <= 1
    /\ \A c, d \in LiveContexts(pmac) :
           c # d => /\ pmac.ctxs[c].propq # 0 => pmac.ctxs[c].propq # pmac.ctxs[d].propq
                    /\ pmac.ctxs[c].macctx # 0 => pmac.ctxs[c].macctx # pmac.ctxs[d].macctx
    /\ \A c \in LiveContexts(pmac) :
           /\ pmac.ctxs[c].propq # 0 => pmac.strs[pmac.ctxs[c].propq].frees = 0
           /\ pmac.ctxs[c].macctx # 0 => pmac.macs[pmac.ctxs[c].macctx].frees = 0
    /\ \A k \in MacKeys : pmac.refs[k] >= 1
    /\ (DidMac("dupctx") /\ pmac.ret = 0) =>
           LET src == pmac.ctxs[pmac.op.arg.c]
           IN /\ pmac.ctxs = pmac.pre.ctxs /\ pmac.refs = pmac.pre.refs
              /\ src.propq # 0 => pmac.strs[src.propq] = pmac.pre.strs[src.propq]
              /\ src.macctx # 0 => pmac.macs[src.macctx] = pmac.pre.macs[src.macctx]

\* How many of the contexts held by the caller have key k in their key field.
Holders(m, k) == Cardinality({ c \in 1..Len(m.ctxs) : m.ctxs[c].live /\ m.ctxs[c].key = k })

\* The reference counts refs with n added to the one of key k (none for NULL).
Moved(refs, k, n) == IF k = NULL THEN refs ELSE [refs EXCEPT ![k] = @ + n]

\* C39: while no block was freed twice, the references held on each MAC key
\* besides the caller's are as many as the live contexts whose key field
\* names it.  mac_digest_sign_init with a NULL context or a NULL key returns
\* 0 and changes nothing; once it has taken the key, whether it then
\* succeeds or fails, the context names the new key, holds one reference
\* more on it and one less on the key it named before (none more when both
\* are the same key); a successful mac_dupctx adds one reference on the
\* source's key, a failed one none, and mac_freectx drops one.
C39_KeyReferences ==
    ~pmac.ub =>
        /\ \A k \in MacKeys : pmac.refs[k] = 1 + Holders(pmac, k)
        /\ DidMac("digest_sign_init") =>
               LET a == pmac.op.arg
               IN IF a.c = 0 \/ a.vkey = NULL
                  THEN /\ pmac.ret = 0
                       /\ MacSnapshot = pmac.pre
                  ELSE IF a.fail = "up_ref"
                  THEN pmac.ret = 0 /\ MacSnapshot = pmac.pre
                  ELSE /\ pmac.ctxs[a.c].key = a.vkey
                       /\ pmac.ret = 1 <=> a.fail = "none"
                       /\ pmac.refs = Moved(Moved(pmac.pre.refs, a.vkey, 1),
                                            pmac.pre.ctxs[a.c].key, -1)
                       /\ a.vkey = pmac.pre.ctxs[a.c].key => pmac.refs = pmac.pre.refs
        /\ DidMac("dupctx") =>
               pmac.refs = IF pmac.ret = 0 THEN pmac.pre.refs
                           ELSE Moved(pmac.pre.refs, pmac.ctxs[pmac.op.arg.c].key, 1)
        /\ DidMac("freectx") =>
               pmac.refs = Moved(pmac.pre.refs, pmac.ctxs[pmac.op.arg.c].key, -1)
        /\ DidMac("newctx") => pmac.refs = pmac.pre.refs

\* A context and its duplicate name the same key, and the key was set again
\* on one of them by an init that failed after it had taken the key.
C39_Witness ==
    /\ ~pmac.ub
    /\ DidMac("digest_sign_init")
    /\ pmac.op.arg.c # 0 /\ pmac.op.arg.fail = "set_params"
    /\ pmac.op.arg.vkey = pmac.pre.ctxs[pmac.op.arg.c].key
    /\ pmac.ret = 0
    /\ \E k \in MacKeys : Holders(pmac, k) = 2 /\ pmac.refs[k] = 3

(***************************************************************************)
(* Properties of ktls_read_record (SpecKtls)                               *)
(***************************************************************************)
\* The number the two length bytes of a record header stand for.
HeaderLength(hdr) == hdr[4] * 256 + hdr[5]

\* C40: ktls_read_record returns -1 with errno EINVAL, without calling
\* recvmsg, for a buffer shorter than header and tag (5 + 16 bytes); when
\* recvmsg delivered n bytes with a TLS_GET_RECORD_TYPE control message it
\* has written the record type, 3, 3 and the low 16 bits of n, high byte
\* first (n itself for every n below 65536), and returns n + 5; and what it
\* returns is never more than the buffer length.
C40_ReadRecord ==
    kt # NULLP /\ kt.called =>
        LET n == recvmsg(kt.sock, kt.length - 21)
        IN /\ kt.length < 5 + 16 =>
                  /\ kt.out.ret = -1 /\ kt.out.errno = EINVAL
                  /\ ~kt.out.received /\ kt.out.hdr = NULLP
           /\ (kt.length >= 5 + 16 /\ n >= 0 /\ kt.sock.cmsg_type = TLS_GET_RECORD_TYPE) =>
                  /\ kt.out.hdr # NULLP
                  /\ kt.out.hdr[1] = kt.sock.record_type
                  /\ kt.out.hdr[2] = 3 /\ kt.out.hdr[3] = 3
                  /\ kt.out.hdr[4] \in 0..255 /\ kt.out.hdr[5] \in 0..255
                  /\ HeaderLength(kt.out.hdr) = n % 65536
                  /\ n < 65536 => HeaderLength(kt.out.hdr) = n
                  /\ kt.out.ret = n + 5
           /\ kt.out.ret <= kt.length
           /\ kt.out.received => kt.out.iov_len = kt.length - 21

\* A record of 257 bytes was read with its control message into a buffer
\* that has just the room for it.
C40_Witness ==
    /\ kt # NULLP /\ kt.called
    /\ kt.length = 278 /\ kt.sock.avail = 257
    /\ kt.sock.cmsg_type = TLS_GET_RECORD_TYPE
    /\ kt.out.ret = 262
    /\ kt.out.hdr = <<kt.sock.record_type, 3, 3, 1, 1>>

====
